---- MODULE Spec2Model ----
(***************************************************************************)
(* Deck assembly (slide.py: _build_slide) and the slide-type fillers of    *)
(* SlideBuilder.py, as a state machine.                                    *)
(*                                                                         *)
(* A Python str is a sequence of tokens; the token NL is the newline       *)
(* character, so concatenation is \o and splitlines() splits at NL.        *)
(* A slide is a record [src, shapes]: src is the 1-based library position  *)
(* it was copied from, shapes the slide's shape collection in iteration    *)
(* order.                                                                  *)
(***************************************************************************)
EXTENDS Integers, Sequences, FiniteSets, TLC

VARIABLES
    pc,                   \* position of _build_slide
    data,                 \* the content plan handed to _build_slide
    library,              \* which library deck is on disk (an input)
    powerpoint_instance,  \* SlideBuilder._powerpoint_instance: "None" or "app"
    presentation,         \* builder.presentation: "None" or "open"
    deck,                 \* slides of the open output presentation (in memory)
    disk,                 \* slides of the output file as last saved
    slide,                \* builder.slide: active output position, 0 = None
    shape_cache,          \* builder._shape_cache: lower-cased name -> shape index
    slides_to_copy,       \* the list built at slide.py:31
    i,                    \* loop variable of slide.py:38
    exc,                  \* the exception that ended the run, NoExc if none
    copied,               \* 0-based library positions pasted so far, in order
    calls,                \* filler invocations so far, in order
    trace,                \* host operations on the output deck, in order
    wcall,                \* the last field-writer call: its arguments, the shapes
                          \* before it and what it raised
    docx_path,            \* gui.py: self.docx_path, "" = None
    buttons,              \* gui.py: state of each of the six buttons
    response_exists,      \* os.path.exists(self.response_path)
    output_exists,        \* os.path.exists(self.output_path)
    after_queue,          \* callbacks registered with root.after(0, ...), FIFO,
                          \* each with the button states its run started from
    threads,              \* live worker threads: [target, pc, run, session,
                          \* dispatching, started]
    ui_calls,             \* Tk calls made so far: [widget, thread]
    runs,                 \* worker threads started so far
    jpc,                  \* position in summarise_document / the two loaders
    response_content,     \* response.choices[0].message.content, a string of characters
    response_txt,         \* the text of output/response.txt, NoFile if absent
    cleaned_response,     \* Summarise.py:79
    gen_data,             \* what _get_response returns or raises
    regen_data,           \* what regenerate_slide's json.load returns or raises
    intended              \* the JSON value the response stands for when its
                          \* trailing commas are ignored (an input)

ctl_vars == <<pc, data, library, powerpoint_instance, presentation, deck, disk,
              slide, shape_cache, slides_to_copy, i, exc, copied, calls, trace>>

gui_vars == <<docx_path, buttons, response_exists, output_exists, after_queue,
              threads, ui_calls, runs>>

json_vars == <<jpc, response_content, response_txt, cleaned_response, gen_data,
               regen_data, intended>>

vars == <<ctl_vars, wcall, gui_vars, json_vars>>

---------------------------------------------------------------------------
(* Text and exceptions *)

NL == "\n"

NoExc == [type |-> "none", key |-> "", id |-> 0]

KeyError(k) == [type |-> "KeyError", key |-> k, id |-> 0]

IndexError == [type |-> "IndexError", key |-> "list index out of range", id |-> 0]

NameError(v) == [type |-> "UnboundLocalError", key |-> v, id |-> 0]

ValueError(n) == [type |-> "ValueError", key |-> "Unknown Slide Type", id |-> n]

com_error(op) == [type |-> "com_error", key |-> op, id |-> 0]

\* the text unsplit: one piece, newlines and all
splitlines_whole(text) == IF text = <<>> THEN <<>> ELSE <<text>>

RECURSIVE splitlines(_)

\* str.splitlines(): the pieces between newlines, no empty piece after a
\* final newline
splitlines(text) ==
    IF text = <<>> THEN <<>>
    ELSE LET brk == {j \in DOMAIN text : text[j] = NL}
         IN  IF brk = {} THEN <<text>>
             ELSE LET j == CHOOSE m \in brk : \A n \in brk : m <= n
                  IN  <<SubSeq(text, 1, j - 1)>>
                          \o splitlines(SubSeq(text, j + 1, Len(text)))

---------------------------------------------------------------------------
(* Shapes of a slide *)

NoCells == [rc \in {} |-> <<>>]

TextShape(name, text) ==
    [Name |-> name, HasTextFrame |-> TRUE, HasTable |-> FALSE,
     HasGroupItems |-> FALSE, Text |-> text, Table |-> NoCells,
     GroupItems |-> <<>>, Bullet |-> FALSE, GroupItemsRaises |-> FALSE]

TableShape(name, rows, cols, text) ==
    [Name |-> name, HasTextFrame |-> FALSE, HasTable |-> TRUE,
     HasGroupItems |-> FALSE, Text |-> <<>>,
     Table |-> [rc \in (1..rows) \X (1..cols) |-> text],
     GroupItems |-> <<>>, Bullet |-> FALSE, GroupItemsRaises |-> FALSE]

GroupItem(name, hasText, text) ==
    [Name |-> name, HasTextFrame |-> hasText, Text |-> text]

GroupShape(name, items) ==
    [Name |-> name, HasTextFrame |-> FALSE, HasTable |-> FALSE,
     HasGroupItems |-> TRUE, Text |-> <<>>, Table |-> NoCells,
     GroupItems |-> items, Bullet |-> FALSE, GroupItemsRaises |-> FALSE]

\* a shape with no text frame, no table and no group items (a picture)
PictureShape(name) ==
    [Name |-> name, HasTextFrame |-> FALSE, HasTable |-> FALSE,
     HasGroupItems |-> FALSE, Text |-> <<>>, Table |-> NoCells,
     GroupItems |-> <<>>, Bullet |-> FALSE, GroupItemsRaises |-> FALSE]

\* a picture on a host that answers a read of GroupItems on a shape that is
\* no group with an error (pywintypes.com_error) where PictureShape has no
\* such attribute; which of the two a host does is not fixed by the source
StrictPictureShape(name) == [PictureShape(name) EXCEPT !.GroupItemsRaises = TRUE]

\* str.lower() on the shape names the fillers use; any other name here is
\* already lower-case
lower(name) ==
    CASE name = "Content Placeholder 12" -> "content placeholder 12"
      [] name = "Content Placeholder 4-1c" -> "content placeholder 4-1c"
      [] name = "Content Placeholder 4-1r" -> "content placeholder 4-1r"
      [] name = "Content Placeholder 4-2c" -> "content placeholder 4-2c"
      [] name = "Content Placeholder 4-2r" -> "content placeholder 4-2r"
      [] name = "Content Placeholder 4-3c" -> "content placeholder 4-3c"
      [] name = "Content Placeholder 4-3r" -> "content placeholder 4-3r"
      [] name = "Content Placeholder 4-4c" -> "content placeholder 4-4c"
      [] name = "Content Placeholder 4-4r" -> "content placeholder 4-4r"
      [] name = "Content Placeholder 5" -> "content placeholder 5"
      [] name = "Ellipse 17" -> "ellipse 17"
      [] name = "Google Shape;1738;p230" -> "google shape;1738;p230"
      [] name = "Google Shape;2350;p252" -> "google shape;2350;p252"
      [] name = "Google Shape;2352;p252" -> "google shape;2352;p252"
      [] name = "Google Shape;2359;p252" -> "google shape;2359;p252"
      [] name = "Google Shape;2359;p252-2" -> "google shape;2359;p252-2"
      [] name = "Google Shape;2359;p252-3" -> "google shape;2359;p252-3"
      [] name = "Google Shape;2359;p252-4" -> "google shape;2359;p252-4"
      [] name = "Groupe 115" -> "groupe 115"
      [] name = "Rectangle 10" -> "rectangle 10"
      [] name = "Rectangle 11" -> "rectangle 11"
      [] name = "Rectangle 12" -> "rectangle 12"
      [] name = "Rectangle 13" -> "rectangle 13"
      [] name = "Rectangle 14" -> "rectangle 14"
      [] name = "Rectangle 16" -> "rectangle 16"
      [] name = "Rectangle 16-2" -> "rectangle 16-2"
      [] name = "Rectangle 16-3" -> "rectangle 16-3"
      [] name = "Rectangle 16-5" -> "rectangle 16-5"
      [] name = "Rectangle 18" -> "rectangle 18"
      [] name = "Rectangle 19" -> "rectangle 19"
      [] name = "Rectangle 19-2" -> "rectangle 19-2"
      [] name = "Rectangle 19-3" -> "rectangle 19-3"
      [] name = "Rectangle 19-4" -> "rectangle 19-4"
      [] name = "Rectangle 19-5" -> "rectangle 19-5"
      [] name = "Rectangle 19-6" -> "rectangle 19-6"
      [] name = "Rectangle 20" -> "rectangle 20"
      [] name = "Rectangle 30" -> "rectangle 30"
      [] name = "Rectangle 31" -> "rectangle 31"
      [] name = "Rectangle 32" -> "rectangle 32"
      [] name = "Rectangle 35" -> "rectangle 35"
      [] name = "Rectangle 36" -> "rectangle 36"
      [] name = "Rectangle 37" -> "rectangle 37"
      [] name = "Rectangle 38" -> "rectangle 38"
      [] name = "Rectangle 39" -> "rectangle 39"
      [] name = "Rectangle 7" -> "rectangle 7"
      [] name = "Rectangle 8" -> "rectangle 8"
      [] name = "Table 7" -> "table 7"
      [] name = "Tableau 18" -> "tableau 18"
      [] name = "TextBox 10" -> "textbox 10"
      [] name = "TextBox 11" -> "textbox 11"
      [] name = "TextBox 12" -> "textbox 12"
      [] name = "TextBox 9" -> "textbox 9"
      [] name = "TextBox 91" -> "textbox 91"
      [] name = "TextBox 91-2" -> "textbox 91-2"
      [] name = "TextBox 91-3" -> "textbox 91-3"
      [] name = "TextBox 91-4" -> "textbox 91-4"
      [] name = "Title 1" -> "title 1"
      [] name = "Title 4" -> "title 4"
      [] name = "Title 5" -> "title 5"
      [] name = "Titre 1" -> "titre 1"
      [] name = "ZoneTexte 10" -> "zonetexte 10"
      [] name = "ZoneTexte 109" -> "zonetexte 109"
      [] name = "ZoneTexte 111" -> "zonetexte 111"
      [] name = "ZoneTexte 112" -> "zonetexte 112"
      [] name = "ZoneTexte 113" -> "zonetexte 113"
      [] name = "ZoneTexte 19" -> "zonetexte 19"
      [] name = "ZoneTexte 32" -> "zonetexte 32"
      [] name = "ZoneTexte 4" -> "zonetexte 4"
      [] name = "ZoneTexte 47" -> "zonetexte 47"
      [] name = "ZoneTexte 48" -> "zonetexte 48"
      [] name = "ZoneTexte 49" -> "zonetexte 49"
      [] name = "ZoneTexte 50" -> "zonetexte 50"
      [] name = "ZoneTexte 50-2" -> "zonetexte 50-2"
      [] name = "ZoneTexte 6" -> "zonetexte 6"
      [] name = "ZoneTexte 71" -> "zonetexte 71"
      [] name = "ZoneTexte 72" -> "zonetexte 72"
      [] name = "ZoneTexte 77" -> "zonetexte 77"
      [] name = "ZoneTexte 78" -> "zonetexte 78"
      [] name = "ZoneTexte 8" -> "zonetexte 8"
      [] name = "ZoneTexte 80" -> "zonetexte 80"
      [] name = "ZoneTexte 86" -> "zonetexte 86"
      [] name = "ZoneTexte 86-2" -> "zonetexte 86-2"
      [] name = "TITLE 1" -> "title 1"
      [] name = "TITRE 1" -> "titre 1"
      [] OTHER -> name

---------------------------------------------------------------------------
(* Shape Locator and Field Writers (SlideBuilder.py:156-221).  A shape     *)
(* handle is the shape's index in the active slide's shape collection;     *)
(* 0 is None.                                                              *)

\* the cache built by the loop at 161-162: a later shape with the same
\* lower-cased name overwrites the earlier entry
_build_shape_cache(shapes) ==
    [n \in {lower(shapes[j].Name) : j \in DOMAIN shapes} |->
        CHOOSE j \in DOMAIN shapes :
            /\ lower(shapes[j].Name) = n
            /\ \A k \in DOMAIN shapes : lower(shapes[k].Name) = n => k <= j]

_get_shape(cache, name) ==
    IF lower(name) \in DOMAIN cache THEN cache[lower(name)] ELSE 0

\* the text appended to what the shape holds
_set_text_append(shapes, cache, shape_name, text) ==
    LET shape == _get_shape(cache, shape_name)
    IN  IF shape # 0 /\ shapes[shape].HasTextFrame
        THEN [shapes EXCEPT ![shape].Text = @ \o text]
        ELSE shapes

_set_text(shapes, cache, shape_name, text) ==
    LET shape == _get_shape(cache, shape_name)
    IN  IF shape # 0 /\ shapes[shape].HasTextFrame
        THEN [shapes EXCEPT ![shape].Text = text]
        ELSE shapes

RECURSIVE join(_)
\* "\n".join(items)
join(items) ==
    IF items = <<>> THEN <<>>
    ELSE IF Len(items) = 1 THEN items[1]
    ELSE items[1] \o <<NL>> \o join(Tail(items))

\* formatted: the bullet formatting at 181-183 went through; when it raises
\* the exception is swallowed at 184-185 with the text already written
_set_bullets(shapes, cache, shape_name, items, formatted) ==
    LET shape == _get_shape(cache, shape_name)
    IN  IF shape # 0 /\ shapes[shape].HasTextFrame
        THEN [shapes EXCEPT ![shape].Text = join(items),
                            ![shape].Bullet = (@ \/ formatted)]
        ELSE shapes

\* the cell addressed as Cell(col, row)
_set_table_cell_swapped(shapes, cache, shape_name, row, col, text) ==
    LET shape == _get_shape(cache, shape_name)
    IN  IF shape # 0 /\ shapes[shape].HasTable
        THEN IF <<col, row>> \in DOMAIN shapes[shape].Table
             THEN [shapes EXCEPT ![shape].Table[<<col, row>>] = text]
             ELSE shapes
        ELSE shapes

_set_table_cell(shapes, cache, shape_name, row, col, text) ==
    LET shape == _get_shape(cache, shape_name)
    IN  IF shape # 0 /\ shapes[shape].HasTable
        THEN IF <<row, col>> \in DOMAIN shapes[shape].Table
             THEN [shapes EXCEPT ![shape].Table[<<row, col>>] = text]
             ELSE shapes   \* Cell(row, col) raises, swallowed at 201-202
        ELSE shapes

\* hasattr(group, "GroupItems") at 213 is outside the try and lets every
\* exception but AttributeError through
_set_group_text_raises(shapes, cache, group_name) ==
    LET group == _get_shape(cache, group_name)
    IN  group # 0 /\ shapes[group].GroupItemsRaises

\* the scan going on past a match that has no text frame, to the first
\* match that has one
_set_group_text_skips_frameless(shapes, cache, group_name, shape_name, text) ==
    LET group == _get_shape(cache, group_name)
    IN  IF group # 0 /\ shapes[group].HasGroupItems
        THEN LET items == shapes[group].GroupItems
                 hits == {j \in DOMAIN items :
                              /\ lower(items[j].Name) = lower(shape_name)
                              /\ items[j].HasTextFrame}
             IN  IF hits = {} THEN shapes
                 ELSE LET item == CHOOSE j \in hits : \A k \in hits : j <= k
                      IN  [shapes EXCEPT ![group].GroupItems[item].Text = text]
        ELSE shapes


_set_group_text(shapes, cache, group_name, shape_name, text) ==
    LET group == _get_shape(cache, group_name)
    IN  IF group # 0 /\ shapes[group].HasGroupItems
        THEN LET items == shapes[group].GroupItems
                 hits == {j \in DOMAIN items :
                              lower(items[j].Name) = lower(shape_name)}
             IN  IF hits = {} THEN shapes
                 ELSE LET item == CHOOSE j \in hits : \A k \in hits : j <= k
                      IN  IF items[item].HasTextFrame
                          THEN [shapes EXCEPT
                                   ![group].GroupItems[item].Text = text]
                          ELSE shapes
        ELSE shapes

---------------------------------------------------------------------------
(* The statements of a filler body.  A filler is the sequence of its       *)
(* statements after the two opening lines (select the slide, rebuild the   *)
(* cache); an expression is the sequence of the operands of its "+".       *)

Title == [a |-> "title", k |-> "", v |-> <<>>]

Slot(key) == [a |-> "slot", k |-> key, v |-> <<>>]

Var(name) == [a |-> "var", k |-> name, v |-> <<>>]

Lit(text) == [a |-> "lit", k |-> "", v |-> text]

\* self._set_text(shape, e)
SetText(shape, e) == [op |-> "set_text", shape |-> shape, e |-> e]

\* self._set_table_cell(shape, row, col, e)
SetTableCell(shape, row, col, e) ==
    [op |-> "set_table_cell", shape |-> shape, row |-> row, col |-> col, e |-> e]

\* self._set_group_text(group, shape, e)
SetGroupText(group, shape, e) ==
    [op |-> "set_group_text", group |-> group, shape |-> shape, e |-> e]

\* if k1 in content and k2 in content ...: body
If(keys, body) == [op |-> "if", keys |-> keys, body |-> body]

\* v = e
Assign(v, e) == [op |-> "assign", v |-> v, e |-> e]

\* v = e where the source has v += e: what v held is dropped
AugAssign_overwrites(v, e) == [op |-> "assign", v |-> v, e |-> e]


\* v += e
AugAssign(v, e) == [op |-> "augassign", v |-> v, e |-> e]

\* points = content[key].splitlines()
\* for i in range(len(points)): self._set_text(zones[i], points[i])
FanOut(key, zones) == [op |-> "fanout", key |-> key, zones |-> zones]

RECURSIVE Eval(_, _, _, _)
\* the value of an expression, or the exception reading it raises
Eval(e, title, content, env) ==
    IF e = <<>> THEN [val |-> <<>>, exc |-> NoExc]
    ELSE LET x == e[1]
             head ==
                 CASE x.a = "title" -> [val |-> title, exc |-> NoExc]
                   [] x.a = "lit" -> [val |-> x.v, exc |-> NoExc]
                   [] x.a = "slot" ->
                        IF x.k \in DOMAIN content
                        THEN [val |-> content[x.k], exc |-> NoExc]
                        ELSE [val |-> <<>>, exc |-> KeyError(x.k)]
                   [] x.a = "var" ->
                        IF x.k \in DOMAIN env
                        THEN [val |-> env[x.k], exc |-> NoExc]
                        ELSE [val |-> <<>>, exc |-> NameError(x.k)]
         IN  IF head.exc # NoExc THEN head
             ELSE LET rest == Eval(Tail(e), title, content, env)
                  IN  IF rest.exc # NoExc THEN rest
                      ELSE [val |-> head.val \o rest.val, exc |-> NoExc]

RECURSIVE FanOutLoop_clipped(_, _, _, _, _)
\* the loop stopping at the last zone: lines past it are dropped
FanOutLoop_clipped(st, cache, zones, points, n) ==
    IF n > Len(points) \/ n > Len(zones) THEN st
    ELSE FanOutLoop_clipped(
             [st EXCEPT !.shapes = _set_text(@, cache, zones[n], points[n])],
             cache, zones, points, n + 1)

RECURSIVE FanOutLoop(_, _, _, _, _)
\* the for loop of fill_slide_type_69, from iteration n on
FanOutLoop(st, cache, zones, points, n) ==
    IF n > Len(points) THEN st
    ELSE IF n > Len(zones) THEN [st EXCEPT !.exc = IndexError]
    ELSE FanOutLoop(
             [st EXCEPT !.shapes = _set_text(@, cache, zones[n], points[n])],
             cache, zones, points, n + 1)

RECURSIVE Exec(_, _, _, _, _)
\* run statements in order on st = [shapes, env, exc]; a raised exception
\* ends the body
Exec(stmts, st, cache, title, content) ==
    IF stmts = <<>> \/ st.exc # NoExc THEN st
    ELSE LET s == stmts[1]
             r == IF s.op = "if" THEN [val |-> <<>>, exc |-> NoExc]
                  ELSE IF s.op = "fanout"
                       THEN Eval(<<Slot(s.key)>>, title, content, st.env)
                  ELSE Eval(s.e, title, content, st.env)
             next ==
                 IF r.exc # NoExc THEN [st EXCEPT !.exc = r.exc]
                 ELSE CASE s.op = "set_text" ->
                          [st EXCEPT !.shapes =
                              _set_text(@, cache, s.shape, r.val)]
                   [] s.op = "set_table_cell" ->
                          [st EXCEPT !.shapes =
                              _set_table_cell(@, cache, s.shape, s.row, s.col, r.val)]
                   [] s.op = "set_group_text" ->
                          IF _set_group_text_raises(st.shapes, cache, s.group)
                          THEN [st EXCEPT !.exc = com_error("GroupItems")]
                          ELSE [st EXCEPT !.shapes =
                                   _set_group_text(@, cache, s.group, s.shape, r.val)]
                   [] s.op = "if" ->
                          IF \A j \in DOMAIN s.keys : s.keys[j] \in DOMAIN content
                          THEN Exec(s.body, st, cache, title, content)
                          ELSE st
                   [] s.op = "assign" ->
                          [st EXCEPT !.env = (s.v :> r.val) @@ @]
                   [] s.op = "augassign" ->
                          IF s.v \in DOMAIN st.env
                          THEN [st EXCEPT !.env = (s.v :> (@[s.v] \o r.val)) @@ @]
                          ELSE [st EXCEPT !.exc = NameError(s.v)]
                   [] s.op = "fanout" ->
                          FanOutLoop(st, cache, s.zones, splitlines(r.val), 1)
         IN  Exec(Tail(stmts), next, cache, title, content)

NoEnv == [v \in {} |-> <<>>]

\* a filler that writes through the cache the title filler left, the
\* rebuild at its second line forgotten
RunFiller_stale(body, slides, index, title, content) ==
    IF index \notin DOMAIN slides
    THEN [slides |-> slides, slide |-> 0, cache |-> NoEnv,
          exc |-> com_error("Slides.Item")]
    ELSE LET cache == _build_shape_cache(slides[1].shapes)
             st == Exec(body, [shapes |-> slides[index].shapes,
                               env |-> NoEnv, exc |-> NoExc],
                        cache, title, content)
         IN  [slides |-> [slides EXCEPT ![index].shapes = st.shapes],
              slide |-> index, cache |-> cache, exc |-> st.exc]


\* a filler called on the open deck: self.slide = self.presentation.Slides(index),
\* self._build_shape_cache(), then the body
RunFiller(body, slides, index, title, content) ==
    IF index \notin DOMAIN slides
    THEN [slides |-> slides, slide |-> 0, cache |-> NoEnv,
          exc |-> com_error("Slides.Item")]
    ELSE LET cache == _build_shape_cache(slides[index].shapes)
             st == Exec(body, [shapes |-> slides[index].shapes,
                               env |-> NoEnv, exc |-> NoExc],
                        cache, title, content)
         IN  [slides |-> [slides EXCEPT ![index].shapes = st.shapes],
              slide |-> index, cache |-> cache, exc |-> st.exc]

---------------------------------------------------------------------------
(* The slide-type fillers, statement by statement.  In fill_slide_type_69  *)
(* the zones list assigned before each "if" is the FanOut's second         *)
(* argument.                                                               *)

\* SlideBuilder.py:223-227
fill_slide_type_title == <<
    SetText("Title 1", <<Title>>)>>

\* SlideBuilder.py:229-239
fill_slide_type_4 == <<
    SetText("Titre 1", <<Title>>),
    If(<<"source">>, <<
        SetText("ZoneTexte 8", <<Slot("source")>>)>>),
    If(<<"description">>, <<
        SetText("ZoneTexte 19", <<Slot("description")>>)>>)>>

\* SlideBuilder.py:265-269
fill_slide_type_7 == <<
    SetText("Titre 1", <<Title>>)>>

\* SlideBuilder.py:271-290
fill_slide_type_8 == <<
    SetText("Titre 1", <<Title>>),
    If(<<"summary_title_1">>, <<
        SetText("ZoneTexte 4", <<Slot("summary_title_1")>>)>>),
    If(<<"summary_title_2">>, <<
        SetText("ZoneTexte 6", <<Slot("summary_title_2")>>)>>),
    If(<<"zonetexte_8">>, <<
        SetText("ZoneTexte 8", <<Slot("zonetexte_8")>>)>>),
    If(<<"source_1">>, <<
        SetText("ZoneTexte 6", <<Slot("source_1")>>)>>),
    If(<<"source_2">>, <<
        SetText("ZoneTexte 10", <<Slot("source_2")>>)>>)>>

\* SlideBuilder.py:316-350
fill_slide_type_11 == <<
    SetText("Titre 1", <<Title>>),
    If(<<"cause_1">>, <<
        SetText("Rectangle 7", <<Slot("cause_1")>>)>>),
    If(<<"conclusion_1">>, <<
        SetText("Rectangle 8", <<Slot("conclusion_1")>>)>>),
    If(<<"consequence_1">>, <<
        SetText("ZoneTexte 32", <<Slot("consequence_1")>>)>>),
    If(<<"cause_2">>, <<
        SetText("Rectangle 13", <<Slot("cause_2")>>)>>),
    If(<<"conclusion_2">>, <<
        SetText("Rectangle 10", <<Slot("conclusion_2")>>)>>),
    If(<<"consequence_2">>, <<
        SetText("ZoneTexte 32", <<Slot("consequence_2")>>)>>),
    If(<<"cause_3">>, <<
        SetText("Rectangle 14", <<Slot("cause_3")>>)>>),
    If(<<"conclusion_3">>, <<
        SetText("Rectangle 12", <<Slot("conclusion_3")>>)>>),
    If(<<"consequence_3">>, <<
        SetText("ZoneTexte 32", <<Slot("consequence_3")>>)>>),
    If(<<"benefit">>, <<
        SetText("Ellipse 17", <<Slot("benefit")>>)>>)>>

\* SlideBuilder.py:352-384
fill_slide_type_12 == <<
    SetText("Titre 1", <<Title>>),
    If(<<"criteria_1">>, <<
        SetTableCell("Table 7", 1, 1, <<Slot("criteria_1")>>)>>),
    If(<<"description_1">>, <<
        SetTableCell("Table 7", 1, 2, <<Slot("description_1")>>)>>),
    If(<<"criteria_2">>, <<
        SetTableCell("Table 7", 2, 1, <<Slot("criteria_2")>>)>>),
    If(<<"description_2">>, <<
        SetTableCell("Table 7", 2, 2, <<Slot("description_2")>>)>>),
    If(<<"criteria_3">>, <<
        SetTableCell("Table 7", 3, 1, <<Slot("criteria_3")>>)>>),
    If(<<"description_3">>, <<
        SetTableCell("Table 7", 3, 2, <<Slot("description_3")>>)>>),
    If(<<"criteria_4">>, <<
        SetTableCell("Table 7", 4, 1, <<Slot("criteria_4")>>)>>),
    If(<<"description_4">>, <<
        SetTableCell("Table 7", 4, 2, <<Slot("description_4")>>)>>),
    If(<<"key_consequences">>, <<
        SetText("Google Shape;1738;p230", <<Slot("key_consequences")>>)>>)>>

\* SlideBuilder.py:536-579
fill_slide_type_21 == <<
    SetText("Title 1", <<Title>>),
    If(<<"key_message">>, <<
        SetText("Content Placeholder 12", <<Slot("key_message")>>)>>),
    If(<<"name_1">>, <<
        SetText("Rectangle 16", <<Slot("name_1")>>)>>),
    If(<<"role_1">>, <<
        SetText("Rectangle 19", <<Slot("role_1")>>)>>),
    If(<<"name_2">>, <<
        SetText("Rectangle 16-2", <<Slot("name_2")>>)>>),
    If(<<"role_2">>, <<
        SetText("Rectangle 19-2", <<Slot("role_2")>>)>>),
    If(<<"name_3">>, <<
        SetText("Rectangle 16-3", <<Slot("name_3")>>)>>),
    If(<<"role_3">>, <<
        SetText("Rectangle 19-3", <<Slot("role_3")>>)>>),
    If(<<"name_4">>, <<
        SetText("Rectangle 11", <<Slot("name_4")>>)>>),
    If(<<"role_4">>, <<
        SetText("Rectangle 19-4", <<Slot("role_4")>>)>>),
    If(<<"name_5">>, <<
        SetText("Rectangle 16-5", <<Slot("name_5")>>)>>),
    If(<<"role_5">>, <<
        SetText("Rectangle 19-5", <<Slot("rol5_4")>>)>>),
    If(<<"name_6">>, <<
        SetText("Rectangle 18", <<Slot("name_6")>>)>>),
    If(<<"role_6">>, <<
        SetText("Rectangle 19-6", <<Slot("role_6")>>)>>)>>

\* SlideBuilder.py:581-629
fill_slide_type_22 == <<
    SetText("Titre 1", <<Title>>),
    If(<<"name_1">>, <<
        SetText("Rectangle 11", <<Slot("name_1")>>)>>),
    Assign("info_1", <<Lit(<<>>)>>),
    If(<<"title_1">>, <<
        AugAssign("info_1", <<Slot("title_1")>>)>>),
    If(<<"role_1">>, <<
        AugAssign("info_1", <<Slot("role_1")>>)>>),
    If(<<"expertise_1">>, <<
        AugAssign("info_1", <<Slot("expertise_1")>>)>>),
    SetText("Rectangle 19", <<Var("info_1")>>),
    If(<<"name_2">>, <<
        SetText("Rectangle 30", <<Slot("name_2")>>)>>),
    Assign("info_2", <<Lit(<<>>)>>),
    If(<<"title_2">>, <<
        AugAssign("info_2", <<Slot("title_2")>>)>>),
    If(<<"role_2">>, <<
        AugAssign("info_2", <<Slot("role_2")>>)>>),
    If(<<"expertise_2">>, <<
        AugAssign("info_2", <<Slot("expertise_2")>>)>>),
    SetText("Rectangle 19-2", <<Var("info_2")>>),
    If(<<"name_3">>, <<
        SetText("Rectangle 31", <<Slot("name_3")>>)>>),
    Assign("info_3", <<Lit(<<>>)>>),
    If(<<"title_3">>, <<
        AugAssign("info_3", <<Slot("title_3")>>)>>),
    If(<<"role_3">>, <<
        AugAssign("info_3", <<Slot("role_3")>>)>>),
    If(<<"expertise_3">>, <<
        AugAssign("info_3", <<Slot("expertise_3")>>)>>),
    SetText("Rectangle 19-3", <<Var("info_3")>>),
    If(<<"name_4">>, <<
        SetText("Rectangle 32", <<Slot("name_4")>>)>>),
    Assign("info_4", <<Lit(<<>>)>>),
    If(<<"title4">>, <<
        AugAssign("info_4", <<Slot("title_4")>>)>>),
    If(<<"role_4">>, <<
        AugAssign("info_4", <<Slot("role_4")>>)>>),
    If(<<"expertise_4">>, <<
        AugAssign("info_4", <<Slot("expertise_4")>>)>>),
    SetText("Rectangle 20", <<Var("info_4")>>)>>

\* SlideBuilder.py:904-932
fill_slide_type_58 == <<
    SetText("Title 1", <<Title>>),
    Assign("msg", <<Lit(<<>>)>>),
    If(<<"idea_1">>, <<
        AugAssign("msg", <<Slot("idea_1")>>),
        AugAssign("msg", <<Lit(<<NL>>)>>)>>),
    If(<<"detail_1">>, <<
        AugAssign("msg", <<Slot("detail_1")>>)>>),
    SetText("Rectangle 37", <<Var("msg")>>),
    Assign("msg", <<Lit(<<>>)>>),
    If(<<"idea_2">>, <<
        AugAssign("msg", <<Slot("idea_2")>>),
        AugAssign("msg", <<Lit(<<NL>>)>>)>>),
    If(<<"detail_2">>, <<
        AugAssign("msg", <<Slot("detail_2")>>)>>),
    SetText("Rectangle 39", <<Var("msg")>>),
    Assign("msg", <<Lit(<<>>)>>),
    If(<<"idea_3">>, <<
        AugAssign("msg", <<Slot("idea_3")>>),
        AugAssign("msg", <<Lit(<<NL>>)>>)>>),
    If(<<"detail_3">>, <<
        AugAssign("msg", <<Slot("detail_3")>>)>>),
    SetText("Rectangle 38", <<Var("msg")>>)>>

\* SlideBuilder.py:1186-1214
fill_slide_type_66 == <<
    SetText("Title 1", <<Title>>),
    If(<<"cause_1">>, <<
        SetText("Content Placeholder 4-1c", <<Slot("cause_1")>>)>>),
    If(<<"result_1">>, <<
        SetText("Content Placeholder 4-1r", <<Slot("result_1")>>)>>),
    If(<<"cause_2">>, <<
        SetText("Content Placeholder 4-2c", <<Slot("cause_1")>>)>>),
    If(<<"result_2">>, <<
        SetText("Content Placeholder 4-2r", <<Slot("result_2")>>)>>),
    If(<<"cause_3">>, <<
        SetText("Content Placeholder 4-3c", <<Slot("cause_3")>>)>>),
    If(<<"result_3">>, <<
        SetText("Content Placeholder 4-3r", <<Slot("result_3")>>)>>),
    If(<<"cause_4">>, <<
        SetText("Content Placeholder 4-4c", <<Slot("cause_4")>>)>>),
    If(<<"result_4">>, <<
        SetText("Content Placeholder 4-4r", <<Slot("result_4")>>)>>)>>

\* SlideBuilder.py:1216-1238
fill_slide_type_67 == <<
    SetText("Title 1", <<Title>>),
    If(<<"cause_1">>, <<
        SetText("Content Placeholder 4-1c", <<Slot("cause_1")>>)>>),
    If(<<"result_1">>, <<
        SetText("Content Placeholder 4-1r", <<Slot("result_1")>>)>>),
    If(<<"cause_2">>, <<
        SetText("Content Placeholder 4-2c", <<Slot("cause_1")>>)>>),
    If(<<"result_2">>, <<
        SetText("Content Placeholder 4-2r", <<Slot("result_2")>>)>>),
    If(<<"cause_3">>, <<
        SetText("Content Placeholder 4-3c", <<Slot("cause_3")>>)>>),
    If(<<"result_3">>, <<
        SetText("Content Placeholder 4-3r", <<Slot("result_3")>>)>>)>>

\* SlideBuilder.py:1240-1256
fill_slide_type_68 == <<
    SetText("Title 1", <<Title>>),
    If(<<"cause_1">>, <<
        SetText("Content Placeholder 4-1c", <<Slot("cause_1")>>)>>),
    If(<<"result_1">>, <<
        SetText("Content Placeholder 4-1r", <<Slot("result_1")>>)>>),
    If(<<"cause_2">>, <<
        SetText("Content Placeholder 4-2c", <<Slot("cause_1")>>)>>),
    If(<<"result_2">>, <<
        SetText("Content Placeholder 4-2r", <<Slot("result_2")>>)>>)>>

\* SlideBuilder.py:1258-1282
fill_slide_type_69 == <<
    SetText("Title 5", <<Title>>),
    If(<<"pro">>, <<
        SetText("ZoneTexte 71", <<Slot("pro")>>)>>),
    If(<<"con">>, <<
        SetText("ZoneTexte 72", <<Slot("con")>>)>>),
    If(<<"detail_1">>, <<
        FanOut("detail_1", <<"ZoneTexte 77", "ZoneTexte 78", "ZoneTexte 80", "ZoneTexte 86", "ZoneTexte 86-2">>)>>),
    If(<<"detail_2">>, <<
        FanOut("detail_2", <<"ZoneTexte 47", "ZoneTexte 48", "ZoneTexte 49", "ZoneTexte 50", "ZoneTexte 50-2">>)>>)>>

\* SlideBuilder.py:1391-1423
fill_slide_type_74 == <<
    SetText("Title 1", <<Title>>),
    If(<<"idea_1">>, <<
        SetGroupText("Groupe 115", "ZoneTexte 109", <<Slot("idea_1")>>)>>),
    If(<<"detail_1">>, <<
        SetText("TextBox 91", <<Slot("detail_1")>>)>>),
    If(<<"idea_2">>, <<
        SetGroupText("Groupe 115", "ZoneTexte 111", <<Slot("idea_2")>>)>>),
    If(<<"detail_2">>, <<
        SetText("TextBox 91-2", <<Slot("detail_2")>>)>>),
    If(<<"idea_3">>, <<
        SetGroupText("Groupe 115", "ZoneTexte 112", <<Slot("idea_3")>>)>>),
    If(<<"detail_3">>, <<
        SetText("TextBox 91-3", <<Slot("detail_3")>>)>>),
    If(<<"idea_4">>, <<
        SetGroupText("Groupe 115", "ZoneTexte 113", <<Slot("idea_4")>>)>>),
    If(<<"detail_4">>, <<
        SetText("TextBox 91-4", <<Slot("detail_4")>>)>>)>>

\* SlideBuilder.py:1458-1493
fill_slide_type_77 == <<
    SetText("Titre 1", <<Title>>),
    If(<<"key_1">>, <<
        SetTableCell("Table 7", 1, 1, <<Slot("key_1")>>)>>),
    If(<<"detail_1">>, <<
        SetTableCell("Table 7", 1, 2, <<Slot("detail_1")>>)>>),
    If(<<"key_2">>, <<
        SetTableCell("Table 7", 2, 1, <<Slot("key_2")>>)>>),
    If(<<"detail_2">>, <<
        SetTableCell("Table 7", 2, 2, <<Slot("detail_2")>>)>>),
    If(<<"key_3">>, <<
        SetTableCell("Table 7", 3, 1, <<Slot("key_3")>>)>>),
    If(<<"detail_3">>, <<
        SetTableCell("Table 7", 3, 2, <<Slot("detail_3")>>)>>),
    If(<<"key_4">>, <<
        SetTableCell("Table 7", 4, 1, <<Slot("key_4")>>)>>),
    If(<<"detail_4">>, <<
        SetTableCell("Table 7", 4, 2, <<Slot("detail_4")>>)>>),
    Assign("msg", <<Lit(<<>>)>>),
    If(<<"summary">>, <<
        AugAssign("msg", <<Lit(<<"Summary:", NL>>), Slot("summary"), Lit(<<NL>>)>>)>>),
    If(<<"next_steps">>, <<
        AugAssign("msg", <<Lit(<<"Next Steps:", NL>>), Slot("next_steps"), Lit(<<NL>>)>>)>>),
    SetTableCell("Table 7", 1, 3, <<Var("msg")>>)>>

\* SlideBuilder.py:1645-1684
fill_slide_type_81 == <<
    SetText("Titre 1", <<Title>>),
    Assign("msg", <<Lit(<<>>)>>),
    If(<<"step_1">>, <<
        AugAssign("msg", <<Slot("step_1"), Lit(<<NL>>)>>)>>),
    If(<<"description_1">>, <<
        AugAssign("msg", <<Slot("description_1")>>)>>),
    SetText("Rectangle 35", <<Var("msg")>>),
    Assign("msg", <<Lit(<<>>)>>),
    If(<<"step_2">>, <<
        AugAssign("msg", <<Slot("step_2"), Lit(<<NL>>)>>)>>),
    If(<<"description_2">>, <<
        AugAssign("msg", <<Slot("description_2")>>)>>),
    SetText("Rectangle 36", <<Var("msg")>>),
    Assign("msg", <<Lit(<<>>)>>),
    If(<<"step_3">>, <<
        AugAssign("msg", <<Slot("step_3"), Lit(<<NL>>)>>)>>),
    If(<<"description_3">>, <<
        AugAssign("msg", <<Slot("description_3")>>)>>),
    SetText("Rectangle 37", <<Var("msg")>>),
    Assign("msg", <<Lit(<<>>)>>),
    If(<<"step_4">>, <<
        AugAssign("msg", <<Slot("step_4"), Lit(<<NL>>)>>)>>),
    If(<<"description_4">>, <<
        AugAssign("msg", <<Slot("description_4")>>)>>),
    SetText("Rectangle 38", <<Var("msg")>>),
    Assign("msg", <<Lit(<<>>)>>),
    If(<<"step_4">>, <<
        AugAssign("msg", <<Slot("step_4"), Lit(<<NL>>)>>)>>),
    If(<<"description_4">>, <<
        AugAssign("msg", <<Slot("description_4")>>)>>),
    SetText("Rectangle 39", <<Var("msg")>>)>>

\* SlideBuilder.py:2404-2434
fill_slide_type_107 == <<
    SetText("Titre 1", <<Title>>),
    Assign("msg", <<Lit(<<>>)>>),
    If(<<"idea_1">>, <<
        AugAssign("msg", <<Lit(<<"1. ">>), Slot("idea_1"), Lit(<<NL>>)>>)>>),
    If(<<"description_1">>, <<
        AugAssign("msg", <<Slot("description_1")>>)>>),
    SetTableCell("Tableau 18", 2, 1, <<Var("msg")>>),
    Assign("msg", <<Lit(<<>>)>>),
    If(<<"idea_2">>, <<
        AugAssign("msg", <<Lit(<<"2. ">>), Slot("idea_2"), Lit(<<NL>>)>>)>>),
    If(<<"description_2">>, <<
        AugAssign("msg", <<Slot("description_2")>>)>>),
    SetTableCell("Tableau 18", 3, 1, <<Var("msg")>>),
    If(<<"pro_1">>, <<
        SetTableCell("Tableau 18", 2, 2, <<Slot("pro_1")>>)>>),
    If(<<"con_1">>, <<
        SetTableCell("Tableau 18", 2, 3, <<Slot("con_1")>>)>>),
    If(<<"pro_2">>, <<
        SetTableCell("Tableau 18", 3, 2, <<Slot("pro_2")>>)>>),
    If(<<"con_2">>, <<
        SetTableCell("Tableau 18", 3, 3, <<Slot("con_2")>>)>>)>>

\* SlideBuilder.py:2436-2479
fill_slide_type_108 == <<
    SetText("Titre 1", <<Title>>),
    Assign("msg", <<Lit(<<>>)>>),
    If(<<"idea_1">>, <<
        AugAssign("msg", <<Lit(<<"1. ">>), Slot("idea_1"), Lit(<<NL>>)>>)>>),
    If(<<"description_1">>, <<
        AugAssign("msg", <<Slot("description_1")>>)>>),
    SetTableCell("Tableau 18", 2, 1, <<Var("msg")>>),
    Assign("msg", <<Lit(<<>>)>>),
    If(<<"idea_2">>, <<
        AugAssign("msg", <<Lit(<<"2. ">>), Slot("idea_2"), Lit(<<NL>>)>>)>>),
    If(<<"description_2">>, <<
        AugAssign("msg", <<Slot("description_2")>>)>>),
    SetTableCell("Tableau 18", 3, 1, <<Var("msg")>>),
    Assign("msg", <<Lit(<<>>)>>),
    If(<<"idea_3">>, <<
        AugAssign("msg", <<Lit(<<"3. ">>), Slot("idea_3"), Lit(<<NL>>)>>)>>),
    If(<<"description_3">>, <<
        AugAssign("msg", <<Slot("description_3")>>)>>),
    SetTableCell("Tableau 18", 4, 1, <<Var("msg")>>),
    If(<<"pro_1">>, <<
        SetTableCell("Tableau 18", 2, 2, <<Slot("pro_1")>>)>>),
    If(<<"con_1">>, <<
        SetTableCell("Tableau 18", 2, 3, <<Slot("con_1")>>)>>),
    If(<<"pro_2">>, <<
        SetTableCell("Tableau 18", 3, 2, <<Slot("pro_2")>>)>>),
    If(<<"con_2">>, <<
        SetTableCell("Tableau 18", 3, 3, <<Slot("con_2")>>)>>),
    If(<<"pro_3">>, <<
        SetTableCell("Tableau 18", 4, 2, <<Slot("pro_3")>>)>>),
    If(<<"con_3">>, <<
        SetTableCell("Tableau 18", 4, 3, <<Slot("con_3")>>)>>)>>

\* SlideBuilder.py:2481-2537
fill_slide_type_109 == <<
    SetText("Titre 1", <<Title>>),
    Assign("msg", <<Lit(<<>>)>>),
    If(<<"idea_1">>, <<
        AugAssign("msg", <<Lit(<<"1. ">>), Slot("idea_1"), Lit(<<NL>>)>>)>>),
    If(<<"description_1">>, <<
        AugAssign("msg", <<Slot("description_1")>>)>>),
    SetTableCell("Tableau 18", 2, 1, <<Var("msg")>>),
    Assign("msg", <<Lit(<<>>)>>),
    If(<<"idea_2">>, <<
        AugAssign("msg", <<Lit(<<"2. ">>), Slot("idea_2"), Lit(<<NL>>)>>)>>),
    If(<<"description_2">>, <<
        AugAssign("msg", <<Slot("description_2")>>)>>),
    SetTableCell("Tableau 18", 3, 1, <<Var("msg")>>),
    Assign("msg", <<Lit(<<>>)>>),
    If(<<"idea_3">>, <<
        AugAssign("msg", <<Lit(<<"3. ">>), Slot("idea_3"), Lit(<<NL>>)>>)>>),
    If(<<"description_3">>, <<
        AugAssign("msg", <<Slot("description_3")>>)>>),
    SetTableCell("Tableau 18", 4, 1, <<Var("msg")>>),
    Assign("msg", <<Lit(<<>>)>>),
    If(<<"idea_4">>, <<
        AugAssign("msg", <<Lit(<<"4. ">>), Slot("idea_4"), Lit(<<NL>>)>>)>>),
    If(<<"description_4">>, <<
        AugAssign("msg", <<Slot("description_4")>>)>>),
    SetTableCell("Tableau 18", 5, 1, <<Var("msg")>>),
    If(<<"pro_1">>, <<
        SetTableCell("Tableau 18", 2, 2, <<Slot("pro_1")>>)>>),
    If(<<"con_1">>, <<
        SetTableCell("Tableau 18", 2, 3, <<Slot("con_1")>>)>>),
    If(<<"pro_2">>, <<
        SetTableCell("Tableau 18", 3, 2, <<Slot("pro_2")>>)>>),
    If(<<"con_2">>, <<
        SetTableCell("Tableau 18", 3, 3, <<Slot("con_2")>>)>>),
    If(<<"pro_3">>, <<
        SetTableCell("Tableau 18", 4, 2, <<Slot("pro_3")>>)>>),
    If(<<"con_3">>, <<
        SetTableCell("Tableau 18", 4, 3, <<Slot("con_3")>>)>>),
    If(<<"pro_4">>, <<
        SetTableCell("Tableau 18", 5, 2, <<Slot("pro_4")>>)>>),
    If(<<"con_4">>, <<
        SetTableCell("Tableau 18", 5, 3, <<Slot("con_4")>>)>>)>>

\* SlideBuilder.py:2569-2590
fill_slide_type_112 == <<
    SetText("Titre 1", <<Title>>),
    If(<<"kpi_1", "kpi_1_unit">>, <<
        SetTableCell("Table 7", 1, 3, <<Slot("kpi_1"), Lit(<<NL>>), Slot("kpi_1_unit")>>)>>),
    If(<<"kpi_2", "kpi_2_unit">>, <<
        SetTableCell("Table 7", 1, 4, <<Slot("kpi_2"), Lit(<<NL>>), Slot("kpi_2_unit")>>)>>),
    If(<<"scenario_1">>, <<
        SetTableCell("Table 7", 2, 1, <<Slot("scenario_1")>>)>>),
    If(<<"scenario_2">>, <<
        SetTableCell("Table 7", 3, 2, <<Slot("scenario_2")>>)>>),
    If(<<"scenario_3">>, <<
        SetTableCell("Table 7", 4, 2, <<Slot("scenario_3")>>)>>)>>

\* SlideBuilder.py:2813-2829
fill_slide_type_121 == <<
    SetText("Title 4", <<Title>>),
    If(<<"step_1">>, <<
        SetText("TextBox 9", <<Lit(<<"Step 1", NL>>), Slot("step_1")>>)>>),
    If(<<"step_2">>, <<
        SetText("TextBox 12", <<Lit(<<"Step 2", NL>>), Slot("step_2")>>)>>),
    If(<<"step_3">>, <<
        SetText("TextBox 10", <<Lit(<<"Step 3", NL>>), Slot("step_3")>>)>>),
    If(<<"step_4">>, <<
        SetText("TextBox 11", <<Lit(<<"Step 4", NL>>), Slot("step_4")>>)>>)>>

\* SlideBuilder.py:3414-3445
fill_slide_type_143 == <<
    SetText("Titre 1", <<Title>>),
    If(<<"step_number">>, <<
        SetText("Google Shape;2350;p252", <<Lit(<<"Step #">>), Slot("step_number")>>)>>),
    If(<<"step_title">>, <<
        SetText("Google Shape;2352;p252", <<Slot("step_title")>>)>>),
    If(<<"step_description">>, <<
        SetText("Content Placeholder 5", <<Slot("step_description")>>)>>),
    If(<<"ksf_1_title", "ksf_1_description">>, <<
        SetText("Google Shape;2359;p252", <<Slot("ksf_1_title"), Lit(<<NL>>), Slot("ksf_1_description")>>)>>),
    If(<<"ksf_2_title", "ksf_2_description">>, <<
        SetText("Google Shape;2359;p252-2", <<Slot("ksf_2_title"), Lit(<<NL>>), Slot("ksf_2_description")>>)>>),
    If(<<"ksf_3_title", "ksf_3_description">>, <<
        SetText("Google Shape;2359;p252-3", <<Slot("ksf_3_title"), Lit(<<NL>>), Slot("ksf_3_description")>>)>>),
    If(<<"ksf_4_title", "ksf_4_description">>, <<
        SetText("Google Shape;2359;p252-4", <<Slot("ksf_4_title"), Lit(<<NL>>), Slot("ksf_4_description")>>)>>)>>

\* the ids N for which SlideBuilder defines fill_slide_type_N, so that
\* hasattr(builder, "fill_slide_type_N") holds (slide.py:42-43)
FillerIds == {
    4, 5, 6, 7, 8, 9, 10, 11, 12, 13, 15, 16, 17, 18, 19, 20, 21, 22, 24,
    25, 47, 48, 49, 50, 51, 52, 53, 54, 55, 56, 57, 58, 59, 60, 61, 62, 63,
    64, 65, 66, 67, 68, 69, 71, 72, 73, 74, 75, 76, 77, 78, 79, 80, 81, 83,
    84, 85, 86, 87, 88, 89, 90, 91, 92, 93, 95, 96, 100, 101, 102, 103,
    104, 105, 106, 107, 108, 109, 110, 112, 113, 115, 116, 117, 118, 119,
    120, 121, 122, 123, 124, 125, 126, 127, 128, 129, 130, 131, 135, 136,
    137, 138, 139, 143, 144, 145, 146, 147, 148, 149, 150, 151, 152, 154,
    155, 156, 157, 158, 159, 160, 161, 162, 163, 164, 165, 166, 167, 168,
    169, 170, 171, 172, 173, 174, 175, 176, 177, 178, 179, 180, 181, 182,
    183, 184, 185, 186, 187, 188}

\* the fillers whose bodies are written out above
ModelledIds == {4, 7, 8, 11, 12, 21, 22, 58, 66, 67, 68, 69, 74, 77, 81, 107, 108, 109, 112, 121, 143}

\* getattr(builder, f"fill_slide_type_{slide_index}") (slide.py:45)
getattr(slide_index) ==
    CASE slide_index = 4 -> fill_slide_type_4
      [] slide_index = 7 -> fill_slide_type_7
      [] slide_index = 8 -> fill_slide_type_8
      [] slide_index = 11 -> fill_slide_type_11
      [] slide_index = 12 -> fill_slide_type_12
      [] slide_index = 21 -> fill_slide_type_21
      [] slide_index = 22 -> fill_slide_type_22
      [] slide_index = 58 -> fill_slide_type_58
      [] slide_index = 66 -> fill_slide_type_66
      [] slide_index = 67 -> fill_slide_type_67
      [] slide_index = 68 -> fill_slide_type_68
      [] slide_index = 69 -> fill_slide_type_69
      [] slide_index = 74 -> fill_slide_type_74
      [] slide_index = 77 -> fill_slide_type_77
      [] slide_index = 81 -> fill_slide_type_81
      [] slide_index = 107 -> fill_slide_type_107
      [] slide_index = 108 -> fill_slide_type_108
      [] slide_index = 109 -> fill_slide_type_109
      [] slide_index = 112 -> fill_slide_type_112
      [] slide_index = 121 -> fill_slide_type_121
      [] slide_index = 143 -> fill_slide_type_143

\* hasattr(builder, f"fill_slide_type_{slide_index}") (slide.py:43)
hasattr(slide_index) == slide_index \in FillerIds

---------------------------------------------------------------------------
(* The library deck: an input.  Position p holds the template with id p;   *)
(* position 1 is the title slide.  The "full" library gives every template *)
(* the shapes its filler names, with the capability the filler expects;    *)
(* "sparse" lacks every second one of them and has 1x1 tables; in "nocap"  *)
(* every shape is a picture; "upper" is "full" with the title shapes'      *)
(* names in capitals.                                                      *)

LibrarySize == 188

MaxSlides == 2

MaxKeys == 2

Libraries == {"full", "sparse", "nocap", "upper"}

TemplateText == <<"template text">>

RECURSIVE Targets(_)
\* the shapes the statements write to, in statement order
Targets(stmts) ==
    IF stmts = <<>> THEN <<>>
    ELSE LET s == stmts[1]
             here ==
                 CASE s.op = "set_text" ->
                        <<[name |-> s.shape, kind |-> "text", row |-> 0,
                           col |-> 0, child |-> ""]>>
                   [] s.op = "set_table_cell" ->
                        <<[name |-> s.shape, kind |-> "table", row |-> s.row,
                           col |-> s.col, child |-> ""]>>
                   [] s.op = "set_group_text" ->
                        <<[name |-> s.group, kind |-> "group", row |-> 0,
                           col |-> 0, child |-> s.shape]>>
                   [] s.op = "fanout" ->
                        [j \in DOMAIN s.zones |->
                            [name |-> s.zones[j], kind |-> "text", row |-> 0,
                             col |-> 0, child |-> ""]]
                   [] s.op = "if" -> Targets(s.body)
                   [] OTHER -> <<>>
         IN  here \o Targets(Tail(stmts))

RECURSIVE Keys(_)
\* the slot keys the statements test or read
Keys(stmts) ==
    IF stmts = <<>> THEN {}
    ELSE LET s == stmts[1]
             read(e) == {e[j].k : j \in {n \in DOMAIN e : e[n].a = "slot"}}
             here ==
                 CASE s.op = "if" ->
                        {s.keys[j] : j \in DOMAIN s.keys} \cup Keys(s.body)
                   [] s.op = "fanout" -> {s.key}
                   [] OTHER -> read(s.e)
         IN  here \cup Keys(Tail(stmts))

Max(S) == CHOOSE m \in S : \A n \in S : n <= m

\* the targets with an earlier target of the same name dropped
FirstTargets(tg) ==
    LET keep == {j \in DOMAIN tg : \A k \in 1..(j - 1) : tg[k].name # tg[j].name}
        F[n \in 0..Len(tg)] ==
            IF n = 0 THEN <<>>
            ELSE IF n \in keep THEN Append(F[n - 1], tg[n]) ELSE F[n - 1]
    IN  F[Len(tg)]

\* the children a group's targets name, each once, in order
Children(tg, group) ==
    LET F[n \in 0..Len(tg)] ==
            IF n = 0 THEN <<>>
            ELSE IF /\ tg[n].name = group
                    /\ tg[n].kind = "group"
                    /\ \A k \in 1..(n - 1) :
                           ~(tg[k].name = group /\ tg[k].child = tg[n].child)
                 THEN Append(F[n - 1], GroupItem(tg[n].child, TRUE, TemplateText))
                 ELSE F[n - 1]
    IN  F[Len(tg)]

TemplateShape(tg, t, lib) ==
    IF lib = "nocap" THEN PictureShape(t.name)
    ELSE CASE t.kind = "text" ->
                TextShape(IF lib = "upper" /\ t.name = "Title 1" THEN "TITLE 1"
                          ELSE IF lib = "upper" /\ t.name = "Titre 1" THEN "TITRE 1"
                          ELSE t.name,
                          TemplateText)
           [] t.kind = "table" ->
                IF lib = "sparse" THEN TableShape(t.name, 1, 1, TemplateText)
                ELSE TableShape(t.name,
                         Max({tg[j].row : j \in {n \in DOMAIN tg : tg[n].name = t.name}}),
                         Max({tg[j].col : j \in {n \in DOMAIN tg : tg[n].name = t.name}}),
                         TemplateText)
           [] t.kind = "group" -> GroupShape(t.name, Children(tg, t.name))

TemplateShapes(body, lib) ==
    LET tg == Targets(body)
        first == FirstTargets(tg)
        all == [j \in DOMAIN first |-> TemplateShape(tg, first[j], lib)]
        odd == {j \in DOMAIN all : j % 2 = 1}
    IN  IF lib = "sparse"
        THEN [j \in 1..Cardinality(odd) |-> all[2 * j - 1]]
        ELSE all

\* library_pres.Slides(p) for p in range: the shapes the slide's filler names
\* and, last, a footer that no filler names
LibrarySlide(lib, p) ==
    [src |-> p,
     shapes |-> (IF p = 1 THEN TemplateShapes(fill_slide_type_title, lib)
                 ELSE IF p \in ModelledIds THEN TemplateShapes(getattr(p), lib)
                 ELSE TemplateShapes(<<SetText("Title 1", <<Title>>)>>, lib))
                \o <<TextShape("footer", TemplateText)>>]

---------------------------------------------------------------------------
(* Content plans: the inputs of _build_slide *)

\* a slot value; each key has its own
Val(k) == <<k>>

Slots(S) == [k \in S |-> Val(k)]

Entry(slide_index, slide_title, slots) ==
    [slide_index |-> slide_index, slide_title |-> slide_title, slots |-> slots]

\* the mapping f without key k
Without(f, k) == [x \in DOMAIN f \ {k} |-> f[x]]

\* the plan entries the assembly runs draw from: well-formed ones, ids with
\* no filler (14 is inside the library, 9999 outside), and entries that
\* lack a key
PlanEntries == <<
    Entry(7, <<"Overview">>, Slots({})),
    Entry(58, <<"Ideas">>, Slots({"idea_1", "detail_1"})),
    Entry(58, <<"Ideas">>, Slots({})),
    Entry(21, <<"Team">>, Slots({"name_1", "role_1"})),
    Entry(21, <<"Team">>, Slots({"role_5"})),
    Entry(66, <<"Causes">>, Slots({"cause_1", "cause_2"})),
    Entry(77, <<"Table">>, Slots({"key_1", "summary"})),
    Entry(69, <<"Pros">>, [k \in {"detail_1"} |-> <<"A", NL, "B", NL, "C">>]),
    Entry(14, <<"Unknown">>, Slots({})),
    Entry(9999, <<"Unknown">>, Slots({})),
    Without(Entry(7, <<"Overview">>, Slots({})), "slide_index"),
    Without(Entry(7, <<"Overview">>, Slots({})), "slide_title"),
    Without(Entry(7, <<"Overview">>, Slots({})), "slots")>>

Plan(presentation_title, slides) ==
    [presentation_title |-> presentation_title, slides |-> slides]

---------------------------------------------------------------------------
(* _build_slide (slide.py:16-54) and the SlideBuilder methods it calls *)

---------------------------------------------------------------------------
(* The state of the parts that a run of _build_slide leaves alone *)

\* no field writer has been called directly yet
NoCall ==
    [op |-> "none", shape_name |-> "", group_name |-> "", row |-> 0, col |-> 0,
     text |-> <<>>, before |-> <<>>, exc |-> NoExc]

Buttons == {"browse", "generate", "view_response", "regenerate", "open_output",
            "settings"}

NORMAL == "normal"

DISABLED == "disabled"

\* a Tk call and the thread that makes it: print() runs TextRedirector.write
\* (gui.py:27-32) on widget "output_text", messagebox.showerror / showwarning
\* open a "messagebox"
UiCall(widget, thread) == [widget |-> widget, thread |-> thread]

\* gui.py:38-159, SlideGeneratorApp.__init__ and _create_widgets: the state of
\* the window when the main loop starts; resp and out tell whether response.txt
\* and output.pptx are left on disk by an earlier session
GuiConstructed(resp, out) ==
    /\ docx_path = ""
    /\ buttons = [b \in Buttons |->
                     IF b \in {"browse", "settings"} THEN NORMAL ELSE DISABLED]
    /\ response_exists = resp
    /\ output_exists = out
    /\ after_queue = <<>>
    /\ threads = <<>>
    /\ ui_calls = {UiCall("output_text", "main")}
    /\ runs = 0

JNull == [t |-> "null", v |-> 0]

NoFile == [exists |-> FALSE, text |-> <<>>]

NotLoaded == [status |-> "none", value |-> JNull]

\* no model response has been received
NoResponse ==
    /\ jpc = "off"
    /\ response_content = <<>>
    /\ response_txt = NoFile
    /\ cleaned_response = <<>>
    /\ gen_data = NotLoaded
    /\ regen_data = NotLoaded
    /\ intended = JNull


Event(op, pos) == [op |-> op, pos |-> pos]

Call(id, index, title, content) ==
    [id |-> id, index |-> index, title |-> title, content |-> content]

\* an exception leaves _build_slide: nothing after the raising line runs
Raise(e) == pc' = "raised" /\ exc' = e

\* the output file a previous run may have left: none, or a deck with slides
PriorOutputs(lib) == {<<>>, <<LibrarySlide(lib, 1), LibrarySlide(lib, 7)>>}

InitWith(plan, lib, prior) ==
    /\ pc = "extract"
    /\ data = plan
    /\ library = lib
    /\ powerpoint_instance = "None"
    /\ presentation = "None"
    /\ deck = <<>>
    /\ disk = prior
    /\ slide = 0
    /\ shape_cache = NoEnv
    /\ slides_to_copy = <<>>
    /\ i = 0
    /\ exc = NoExc
    /\ copied = <<>>
    /\ calls = <<>>
    /\ trace = <<>>
    /\ wcall = NoCall
    /\ GuiConstructed(FALSE, FALSE)
    /\ NoResponse

Init ==
    \E lib \in Libraries : \E prior \in PriorOutputs(lib) :
        \/ \E n \in 0..MaxSlides : \E f \in [1..n -> DOMAIN PlanEntries] :
               InitWith(Plan(<<"Q1 Review">>, [j \in 1..n |-> PlanEntries[f[j]]]),
                        lib, prior)
        \/ \E k \in {"presentation_title", "slides"} :
               InitWith(Without(Plan(<<"Q1 Review">>, <<PlanEntries[1]>>), k),
                        lib, prior)

\* slide.py:23-24
ExtractData ==
    /\ pc = "extract"
    /\ IF "presentation_title" \notin DOMAIN data THEN Raise(KeyError("presentation_title"))
       ELSE IF "slides" \notin DOMAIN data THEN Raise(KeyError("slides"))
       ELSE pc' = "create_blank" /\ exc' = exc
    /\ UNCHANGED <<wcall, gui_vars, json_vars>>
    /\ UNCHANGED <<data, library, powerpoint_instance, presentation, deck, disk,
                   slide, shape_cache, slides_to_copy, i, copied, calls, trace>>

\* create_blank with the delete loop (62-63) stopping one slide short
create_blank_keeps_a_slide ==
    /\ pc = "create_blank"
    /\ powerpoint_instance' = "app"
    /\ disk' = <<LibrarySlide(library, 1)>>
    /\ trace' = Append(trace, Event("SaveAs", 0))
    /\ pc' = "slides_to_copy"
    /\ UNCHANGED <<wcall, gui_vars, json_vars>>
    /\ UNCHANGED <<data, library, presentation, deck, slide, shape_cache,
                   slides_to_copy, i, exc, copied, calls>>

\* SlideBuilder.create_blank (45-69), called at slide.py:29: the library is
\* opened, emptied of its slides, saved as the output file and closed
create_blank ==
    /\ pc = "create_blank"
    /\ powerpoint_instance' = "app"
    /\ disk' = <<>>
    /\ trace' = Append(trace, Event("SaveAs", 0))
    /\ pc' = "slides_to_copy"
    /\ UNCHANGED <<wcall, gui_vars, json_vars>>
    /\ UNCHANGED <<data, library, presentation, deck, slide, shape_cache,
                   slides_to_copy, i, exc, copied, calls>>

\* the host fails inside create_blank: Dispatch (33) raises and no instance
\* is kept, or Presentations.Open (59) raises with the instance acquired
create_blank_fails ==
    /\ pc = "create_blank"
    /\ \E got \in {"None", "app"} :
           /\ powerpoint_instance' = got
           /\ Raise(com_error(IF got = "None" THEN "Dispatch" ELSE "Presentations.Open"))
    /\ UNCHANGED <<wcall, gui_vars, json_vars>>
    /\ UNCHANGED <<data, library, presentation, deck, disk, slide, shape_cache,
                   slides_to_copy, i, copied, calls, trace>>

\* slide.py:31 without the "- 1": plan ids used as 0-based positions
BuildSlidesToCopy_no_offset ==
    /\ pc = "slides_to_copy"
    /\ LET slides == data.slides
       IN  IF \E j \in DOMAIN slides : "slide_index" \notin DOMAIN slides[j]
           THEN Raise(KeyError("slide_index")) /\ UNCHANGED slides_to_copy
           ELSE /\ slides_to_copy' =
                       <<0>> \o [j \in DOMAIN slides |-> slides[j].slide_index]
                /\ pc' = "copy_slides"
                /\ exc' = exc
    /\ UNCHANGED <<wcall, gui_vars, json_vars>>
    /\ UNCHANGED <<data, library, powerpoint_instance, presentation, deck, disk,
                   slide, shape_cache, i, copied, calls, trace>>

\* slide.py:31
BuildSlidesToCopy ==
    /\ pc = "slides_to_copy"
    /\ LET slides == data.slides
       IN  IF \E j \in DOMAIN slides : "slide_index" \notin DOMAIN slides[j]
           THEN Raise(KeyError("slide_index")) /\ UNCHANGED slides_to_copy
           ELSE /\ slides_to_copy' =
                       <<0>> \o [j \in DOMAIN slides |-> slides[j].slide_index - 1]
                /\ pc' = "copy_slides"
                /\ exc' = exc
    /\ UNCHANGED <<wcall, gui_vars, json_vars>>
    /\ UNCHANGED <<data, library, powerpoint_instance, presentation, deck, disk,
                   slide, shape_cache, i, copied, calls, trace>>

RECURSIVE CopyLoop(_, _, _)
\* the for loop of copy_slides (141-147) from the n-th index on;
\* st = [slides, copied, trace, exc]
CopyLoop(st, slide_indices, n) ==
    IF n > Len(slide_indices) THEN st
    ELSE LET slide_index == slide_indices[n]
         IN  IF slide_index + 1 \notin 1..LibrarySize
             THEN [st EXCEPT !.exc = com_error("Slides.Item")]
             ELSE LET new_slide_index == Len(st.slides) + 1
                  IN  CopyLoop(
                          [slides |-> Append(st.slides, LibrarySlide(library, slide_index + 1)),
                           copied |-> Append(st.copied, slide_index),
                           trace |-> Append(st.trace, Event("Paste", new_slide_index)),
                           exc |-> NoExc],
                          slide_indices, n + 1)

\* SlideBuilder.copy_slides (120-154), called at slide.py:34: open_output
\* (71-75) opens the output file, the loop pastes, save_output (149) runs
\* only when the loop raised nothing
copy_slides ==
    /\ pc = "copy_slides"
    /\ LET st == CopyLoop([slides |-> disk, copied |-> copied, trace |-> trace,
                           exc |-> NoExc], slides_to_copy, 1)
       IN  /\ presentation' = "open"
           /\ deck' = st.slides
           /\ copied' = st.copied
           /\ IF st.exc # NoExc
              THEN Raise(st.exc) /\ trace' = st.trace /\ disk' = disk
              ELSE /\ trace' = Append(st.trace, Event("Save", 0))
                   /\ disk' = st.slides
                   /\ pc' = "fill_title"
                   /\ exc' = exc
    /\ UNCHANGED <<wcall, gui_vars, json_vars>>
    /\ UNCHANGED <<data, library, powerpoint_instance, slide, shape_cache,
                   slides_to_copy, i, calls>>

\* SlideBuilder.save_output (83-86)
save_output ==
    IF presentation # "None"
    THEN disk' = deck /\ trace' = Append(trace, Event("Save", 0))
    ELSE UNCHANGED <<disk, trace>>

\* slide.py:35
FillTitle ==
    /\ pc = "fill_title"
    /\ LET r == RunFiller(fill_slide_type_title, deck, 1,
                          data.presentation_title, Slots({}))
       IN  /\ deck' = r.slides
           /\ slide' = r.slide
           /\ shape_cache' = r.cache
           /\ calls' = Append(calls, Call(0, 1, data.presentation_title, Slots({})))
           /\ trace' = Append(trace, Event("Fill", 1))
           /\ IF r.exc # NoExc THEN Raise(r.exc)
              ELSE pc' = "save_title" /\ exc' = exc
    /\ UNCHANGED <<wcall, gui_vars, json_vars>>
    /\ UNCHANGED <<data, library, powerpoint_instance, presentation, disk,
                   slides_to_copy, i, copied>>

\* slide.py:36
SaveTitle ==
    /\ pc = "save_title"
    /\ save_output
    /\ pc' = "loop"
    /\ i' = 0
    /\ UNCHANGED <<wcall, gui_vars, json_vars>>
    /\ UNCHANGED <<data, library, powerpoint_instance, presentation, deck,
                   slide, shape_cache, slides_to_copy, exc, copied, calls>>

\* the loop body passing i + 1 as the output position (the title slide
\* forgotten)
FillEntry_off_by_one ==
    /\ pc = "loop"
    /\ i < Len(data.slides)
    /\ LET entry == data.slides[i + 1]
           slide_index == entry.slide_index
       IN  IF ~hasattr(slide_index)
           THEN Raise(ValueError(slide_index))
                /\ UNCHANGED <<deck, slide, shape_cache, calls, trace>>
           ELSE IF "slide_title" \notin DOMAIN entry
           THEN Raise(KeyError("slide_title"))
                /\ UNCHANGED <<deck, slide, shape_cache, calls, trace>>
           ELSE IF "slots" \notin DOMAIN entry
           THEN Raise(KeyError("slots"))
                /\ UNCHANGED <<deck, slide, shape_cache, calls, trace>>
           ELSE LET r == RunFiller(getattr(slide_index), deck, i + 1,
                                   entry.slide_title, entry.slots)
                IN  /\ deck' = r.slides
                    /\ slide' = r.slide
                    /\ shape_cache' = r.cache
                    /\ calls' = Append(calls, Call(slide_index, i + 1,
                                                   entry.slide_title, entry.slots))
                    /\ trace' = Append(trace, Event("Fill", i + 1))
                    /\ IF r.exc # NoExc THEN Raise(r.exc)
                       ELSE pc' = "save_entry" /\ exc' = exc
    /\ UNCHANGED <<wcall, gui_vars, json_vars>>
    /\ UNCHANGED <<data, library, powerpoint_instance, presentation, disk,
                   slides_to_copy, i, copied>>

\* slide.py:39-47, one pass of the loop body up to the filler's return
FillEntry ==
    /\ pc = "loop"
    /\ i < Len(data.slides)
    /\ LET entry == data.slides[i + 1]
           slide_index == entry.slide_index
       IN  IF ~hasattr(slide_index)
           THEN Raise(ValueError(slide_index))
                /\ UNCHANGED <<deck, slide, shape_cache, calls, trace>>
           ELSE IF "slide_title" \notin DOMAIN entry
           THEN Raise(KeyError("slide_title"))
                /\ UNCHANGED <<deck, slide, shape_cache, calls, trace>>
           ELSE IF "slots" \notin DOMAIN entry
           THEN Raise(KeyError("slots"))
                /\ UNCHANGED <<deck, slide, shape_cache, calls, trace>>
           ELSE LET r == RunFiller(getattr(slide_index), deck, i + 2,
                                   entry.slide_title, entry.slots)
                IN  /\ deck' = r.slides
                    /\ slide' = r.slide
                    /\ shape_cache' = r.cache
                    /\ calls' = Append(calls, Call(slide_index, i + 2,
                                                   entry.slide_title, entry.slots))
                    /\ trace' = Append(trace, Event("Fill", i + 2))
                    /\ IF r.exc # NoExc THEN Raise(r.exc)
                       ELSE pc' = "save_entry" /\ exc' = exc
    /\ UNCHANGED <<wcall, gui_vars, json_vars>>
    /\ UNCHANGED <<data, library, powerpoint_instance, presentation, disk,
                   slides_to_copy, i, copied>>

\* the loop body without the save at slide.py:48
SaveEntry_no_save ==
    /\ pc = "save_entry"
    /\ pc' = "loop"
    /\ i' = i + 1
    /\ UNCHANGED <<wcall, gui_vars, json_vars>>
    /\ UNCHANGED <<data, library, powerpoint_instance, presentation, deck, disk,
                   slide, shape_cache, slides_to_copy, exc, copied, calls, trace>>

\* slide.py:48, then the next pass
SaveEntry ==
    /\ pc = "save_entry"
    /\ save_output
    /\ pc' = "loop"
    /\ i' = i + 1
    /\ UNCHANGED <<wcall, gui_vars, json_vars>>
    /\ UNCHANGED <<data, library, powerpoint_instance, presentation, deck,
                   slide, shape_cache, slides_to_copy, exc, copied, calls>>

\* SlideBuilder.close_output (77-81), called at slide.py:51 once the loop
\* has run out
close_output ==
    /\ pc = "loop"
    /\ i = Len(data.slides)
    /\ IF presentation # "None"
       THEN presentation' = "None" /\ trace' = Append(trace, Event("Close", 0))
       ELSE UNCHANGED <<presentation, trace>>
    /\ pc' = "quit_powerpoint"
    /\ UNCHANGED <<wcall, gui_vars, json_vars>>
    /\ UNCHANGED <<data, library, powerpoint_instance, deck, disk, slide,
                   shape_cache, slides_to_copy, i, exc, copied, calls>>

\* SlideBuilder.quit_powerpoint (38-43), called at slide.py:53
quit_powerpoint ==
    /\ pc = "quit_powerpoint"
    /\ IF powerpoint_instance # "None"
       THEN powerpoint_instance' = "None" /\ trace' = Append(trace, Event("Quit", 0))
       ELSE UNCHANGED <<powerpoint_instance, trace>>
    /\ pc' = "done"
    /\ UNCHANGED <<wcall, gui_vars, json_vars>>
    /\ UNCHANGED <<data, library, presentation, deck, disk, slide, shape_cache,
                   slides_to_copy, i, exc, copied, calls>>

Next ==
    \/ ExtractData
    \/ create_blank
    \/ create_blank_fails
    \/ BuildSlidesToCopy
    \/ copy_slides
    \/ FillTitle
    \/ SaveTitle
    \/ FillEntry
    \/ SaveEntry
    \/ close_output
    \/ quit_powerpoint

Spec == Init /\ [][Next]_vars

\* runs on one plan entry, with no earlier output file, over every modelled
\* filler and every slot map with at most MaxKeys of the filler's keys, or
\* with all of them
RECURSIVE SmallSubsets(_, _)
\* the subsets of K with at most n elements
SmallSubsets(K, n) ==
    IF n = 0 THEN {{}}
    ELSE LET P == SmallSubsets(K, n - 1)
         IN  P \cup {s \cup {k} : s \in P, k \in K}

MaxLines == 6

RECURSIVE Lines(_, _)
\* a slot value of n lines: k, k', k'', ...
Lines(k, n) ==
    IF n = 1 THEN Val(k)
    ELSE Lines(k, n - 1) \o <<NL, k>> \o [x \in 1..(n - 1) |-> "'"]

\* one-entry plans for every modelled filler; a key that a filler fans out
\* over shapes has a value of up to MaxLines lines
FillInit ==
    \E lib \in Libraries : \E id \in ModelledIds :
        \E S \in SmallSubsets(Keys(getattr(id)), MaxKeys) \cup {Keys(getattr(id))} :
            LET body == getattr(id)
                fanned == {body[n].body[1].key :
                              n \in {x \in DOMAIN body :
                                         /\ body[x].op = "if"
                                         /\ body[x].body[1].op = "fanout"}} \cap S
            IN  \E nl \in IF fanned = {} THEN {1} ELSE 1..MaxLines :
                    InitWith(Plan(<<"Deck">>,
                                  <<Entry(id, <<"Slide title">>,
                                          [k \in S |-> IF k \in fanned
                                                       THEN Lines(k, nl)
                                                       ELSE Val(k)])>>),
                             lib, <<>>)

FillSpec == FillInit /\ [][Next]_vars

---------------------------------------------------------------------------
(* Definitions the properties share *)

N == Len(data.slides)

Ended == pc \in {"done", "raised"}

\* the copy phase has completed
Copied == pc \in {"fill_title", "save_title", "loop", "save_entry",
                  "quit_powerpoint", "done"}

\* the run raised inside the loop of slide.py:38-48 (after the title
\* filler, only the loop body raises)
RaisedInLoop == pc = "raised" /\ calls # <<>>

\* the run raised inside a filler: the filler's Fill is the last operation
RaisedInFiller ==
    pc = "raised" /\ trace # <<>> /\ trace[Len(trace)].op = "Fill"

\* slide p of the library as the filler of plan entry j leaves it
FilledCopy(j) ==
    LET entry == data.slides[j]
    IN  RunFiller(getattr(entry.slide_index),
                  <<LibrarySlide(library, entry.slide_index)>>, 1,
                  entry.slide_title, entry.slots).slides[1]

FilledTitle ==
    RunFiller(fill_slide_type_title, <<LibrarySlide(library, 1)>>, 1,
              data.presentation_title, Slots({})).slides[1]

WellFormed(j) ==
    {"slide_index", "slide_title", "slots"} \subseteq DOMAIN data.slides[j]

\* entry j can be copied and filled without any exception
FillsCleanly(j) ==
    /\ WellFormed(j)
    /\ hasattr(data.slides[j].slide_index)
    /\ data.slides[j].slide_index \in 1..LibrarySize
    /\ RunFiller(getattr(data.slides[j].slide_index),
                 <<LibrarySlide(library, data.slides[j].slide_index)>>, 1,
                 data.slides[j].slide_title, data.slides[j].slots).exc = NoExc

Count(op) == Cardinality({n \in DOMAIN trace : trace[n].op = op})

---------------------------------------------------------------------------
(* Properties *)

\* C1: after _build_slide completes successfully on a plan with N slide
\* entries the output deck holds exactly N + 1 slides: create_blank leaves
\* the output file with zero slides and copy_slides appends exactly one
\* slide per requested index.
C1_SlideCount ==
    /\ pc \in {"slides_to_copy", "copy_slides"} => disk = <<>>
    /\ Copied => Len(deck) = Len(slides_to_copy) /\ Len(disk) = Len(slides_to_copy)
    /\ pc = "done" => Len(disk) = N + 1

C1_Witness == pc = "done" /\ N = 2 /\ Len(disk) = 3

\* C2: the 0-based library positions copied are [0] followed by
\* slide_index - 1 for each plan entry in plan order, every paste goes to
\* the end of the output deck, and output position j + 1 holds a copy of
\* the library slide at the 1-based position of the j-th entry's
\* slide_index.
C2_CopyOrder ==
    /\ Copied =>
           /\ copied = <<0>> \o [j \in DOMAIN data.slides |->
                                    data.slides[j].slide_index - 1]
           /\ deck[1].src = 1
           /\ \A j \in DOMAIN data.slides :
                  deck[j + 1].src = data.slides[j].slide_index
    /\ pc = "fill_title" =>
           \A p \in DOMAIN deck : deck[p] = LibrarySlide(library, copied[p] + 1)
    /\ LET pastes == SelectSeq(trace, LAMBDA e : e.op = "Paste")
       IN  \A n \in DOMAIN pastes : pastes[n].pos = n

C2_Witness ==
    /\ pc = "fill_title"
    /\ N = 2
    /\ data.slides[1].slide_index = 58
    /\ data.slides[2].slide_index = 7
    /\ copied = <<0, 57, 6>>

\* C3: the title filler runs on output position 1 with the plan's
\* presentation_title, and for the plan entry at 1-based plan index j the
\* filler keyed by its slide_index is invoked exactly once, with output
\* position j + 1, that entry's slide_title and that entry's slots, in plan
\* order; there is no other filler invocation.
C3_FillerCalls ==
    /\ \A n \in DOMAIN calls :
           IF n = 1
           THEN calls[1] = Call(0, 1, data.presentation_title, Slots({}))
           ELSE /\ n - 1 \in DOMAIN data.slides
                /\ calls[n] = Call(data.slides[n - 1].slide_index, n,
                                   data.slides[n - 1].slide_title,
                                   data.slides[n - 1].slots)
    /\ LET fills == SelectSeq(trace, LAMBDA e : e.op = "Fill")
       IN  /\ Len(fills) = Len(calls)
           /\ \A n \in DOMAIN fills : fills[n].pos = n
    /\ pc = "done" => Len(calls) = N + 1

C3_Witness ==
    /\ pc = "done"
    /\ N = 2
    /\ Len(calls) = 3
    /\ calls[2].id = 21
    /\ calls[3].id = 58
    /\ calls[3].index = 3

\* C4 as claimed: when the run aborts in the plan entry after the k-th
\* saved slide, the saved deck holds slides 1..k filled and the slides of
\* all later entries are absent.
C4_Original ==
    RaisedInLoop =>
        /\ Len(disk) = i + 1
        /\ disk[1] = FilledTitle
        /\ \A j \in 1..i : disk[j + 1] = FilledCopy(j)

\* C4 amended: when the run aborts in the plan entry after the k-th saved
\* slide (k = i + 1), the saved deck holds slides 1..k with their filled
\* content, and the slides of the failing and all later entries are present
\* as unfilled copies of their library templates.
C4_PartialDeck ==
    RaisedInLoop =>
        /\ Len(disk) = N + 1
        /\ disk[1] = FilledTitle
        /\ \A j \in 1..i : disk[j + 1] = FilledCopy(j)
        /\ \A j \in (i + 1)..N :
               disk[j + 1] = LibrarySlide(library, data.slides[j].slide_index)

C4_Witness ==
    /\ RaisedInLoop
    /\ N = 2
    /\ i = 1
    /\ disk[2] # LibrarySlide(library, data.slides[1].slide_index)
    /\ deck[3] # disk[3]

\* C5: on every exit path of an assembly run, an aborted run included, the
\* output deck is closed and the PowerPoint session is quit.
C5_Original ==
    Ended => powerpoint_instance = "None" /\ presentation = "None"

\* C6: no output deck is created and no slide is copied unless the whole
\* plan is valid: every entry has slide_index, slide_title and slots, and
\* every slide_index has a filler.
C6_Original ==
    trace # <<>> =>
        \A j \in DOMAIN data.slides :
            WellFormed(j) /\ hasattr(data.slides[j].slide_index)

\* C7: a plan entry whose slide_index has no filler (every other entry
\* being fillable) makes the run abort with an error reporting exactly that
\* id, and the deck is not saved again after the save that followed the
\* last successfully filled slide.
C7_Original ==
    (Ended /\ trace # <<>>) =>
        \A j \in DOMAIN data.slides :
            ( /\ WellFormed(j)
              /\ ~hasattr(data.slides[j].slide_index)
              /\ \A k \in DOMAIN data.slides \ {j} : FillsCleanly(k) )
            => /\ exc = ValueError(data.slides[j].slide_index)
               /\ trace[Len(trace)].op = "Save"
               /\ Count("Fill") = j

\* C8: every filler returns normally for every slot map with string
\* values, whichever keys are present and whichever shapes are missing.
C8_Original == ~RaisedInFiller

\* the shapes a filler writes its title argument to
TitleTargets(body) ==
    {lower(body[n].shape) :
        n \in {m \in DOMAIN body : body[m].op = "set_text" /\ body[m].e = <<Title>>}}

\* C9: a shape whose bound slot keys are all absent from the slot map
\* receives no write.  Stated for the empty slot map, where this is every
\* shape but the one the title is written to: each keeps the text the
\* template shipped with.
C9_Original ==
    ( /\ pc = "save_entry"
      /\ DOMAIN data.slides[i + 1].slots = {} )
    => \A j \in DOMAIN deck[i + 2].shapes :
           \/ deck[i + 2].shapes[j] =
                  LibrarySlide(library, data.slides[i + 1].slide_index).shapes[j]
           \/ lower(deck[i + 2].shapes[j].Name) \in
                  TitleTargets(getattr(data.slides[i + 1].slide_index))

\* C10: the deck is saved after the title slide's fill and after every
\* plan entry's fill, before the next filler starts; the deck is closed
\* only after all entries are filled, and the save comes right before the
\* close, so the closed file holds every mutation.
C10_SaveAfterEveryFill ==
    /\ \A n \in DOMAIN trace :
           /\ (trace[n].op = "Fill" /\ n < Len(trace)) => trace[n + 1].op = "Save"
           /\ trace[n].op = "Close" =>
                  /\ n > 1 /\ trace[n - 1].op = "Save"
                  /\ Cardinality({m \in 1..n : trace[m].op = "Fill"}) = N + 1
    /\ pc = "loop" => disk = deck
    /\ pc \in {"quit_powerpoint", "done"} =>
           presentation = "None" /\ disk = deck /\ Count("Close") = 1

C10_Witness ==
    /\ pc = "done"
    /\ N = 2
    /\ Count("Fill") = 3
    /\ Count("Save") = 4
    /\ trace[Len(trace) - 1].op = "Close"

---------------------------------------------------------------------------
(* The window (gui.py): button clicks, worker threads, root.after callbacks *)

MaxRuns == 3

\* _build_slide is not running
ControllerOff ==
    /\ pc = "off"
    /\ data = Plan(<<>>, <<>>)
    /\ library = "full"
    /\ powerpoint_instance = "None"
    /\ presentation = "None"
    /\ deck = <<>>
    /\ disk = <<>>
    /\ slide = 0
    /\ shape_cache = NoEnv
    /\ slides_to_copy = <<>>
    /\ i = 0
    /\ exc = NoExc
    /\ copied = <<>>
    /\ calls = <<>>
    /\ trace = <<>>

GuiInit ==
    /\ \E resp \in BOOLEAN : \E out \in BOOLEAN : GuiConstructed(resp, out)
    /\ ControllerOff
    /\ wcall = NoCall
    /\ NoResponse

\* gui.py:368-389: the button states after _set_buttons_state(state, keep_regenerate)
_set_buttons_state(b, state, keep_regenerate, path) ==
    [x \in Buttons |->
        CASE x = "browse" -> state
          [] x = "generate" -> IF state = NORMAL /\ path # "" THEN state ELSE DISABLED
          [] x = "regenerate" -> IF keep_regenerate THEN b[x] ELSE state
          [] x = "view_response" -> state
          [] x = "open_output" -> IF keep_regenerate THEN b[x] ELSE state
          [] x = "settings" -> state]

\* Tk runs a button's command only when the button is in state NORMAL; a
\* worker's error dialog, while up, is modal for the window
Clickable(b) ==
    /\ buttons[b] = NORMAL
    /\ \A k \in DOMAIN threads : threads[k].pc # "dialog"

\* gui.py:161-173
_browse_file ==
    /\ Clickable("browse")
    /\ \E file_path \in {"", "report.docx"} :
        IF file_path # ""
        THEN /\ docx_path' = file_path
             /\ buttons' = [buttons EXCEPT !["generate"] = NORMAL]
             /\ ui_calls' = ui_calls \cup {UiCall("file_label", "main"),
                                           UiCall("buttons", "main")} \cup {UiCall("output_text", "main")}
        ELSE UNCHANGED <<docx_path, buttons, ui_calls>>
    /\ UNCHANGED <<response_exists, output_exists, after_queue, threads, runs>>
    /\ UNCHANGED <<ctl_vars, wcall, json_vars>>

\* gui.py:175-203, the handler up to thread.start()
_generate ==
    /\ Clickable("generate")
    /\ runs < MaxRuns
    /\ IF docx_path = ""
       THEN /\ ui_calls' = ui_calls \cup {UiCall("messagebox", "main")}
            /\ UNCHANGED <<buttons, threads, runs>>
       ELSE /\ buttons' = _set_buttons_state(buttons, DISABLED, FALSE, docx_path)
            /\ ui_calls' = ui_calls \cup {UiCall("buttons", "main")}
            /\ threads' = Append(threads, [target |-> "run_generation", pc |-> "generate_slide",
                                       run |-> runs + 1, session |-> <<>>,
                                       dispatching |-> FALSE, started |-> buttons])
            /\ runs' = runs + 1
    /\ UNCHANGED <<docx_path, response_exists, output_exists, after_queue>>
    /\ UNCHANGED <<ctl_vars, wcall, json_vars>>

\* gui.py:205-233, the handler up to thread.start()
_regenerate ==
    /\ Clickable("regenerate")
    /\ runs < MaxRuns
    /\ IF ~response_exists
       THEN /\ ui_calls' = ui_calls \cup {UiCall("messagebox", "main")}
            /\ UNCHANGED <<buttons, threads, runs>>
       ELSE /\ buttons' = _set_buttons_state(buttons, DISABLED, FALSE, docx_path)
            /\ ui_calls' = ui_calls \cup {UiCall("buttons", "main")}
            /\ threads' = Append(threads, [target |-> "run_regeneration", pc |-> "print_start",
                                       run |-> runs + 1, session |-> <<>>,
                                       dispatching |-> FALSE, started |-> buttons])
            /\ runs' = runs + 1
    /\ UNCHANGED <<docx_path, response_exists, output_exists, after_queue>>
    /\ UNCHANGED <<ctl_vars, wcall, json_vars>>

\* gui.py:235-252
_view_response ==
    /\ Clickable("view_response")
    /\ ui_calls' = ui_calls \cup
                   (IF response_exists THEN {UiCall("output_text", "main")} ELSE {UiCall("messagebox", "main")})
    /\ UNCHANGED <<docx_path, buttons, response_exists, output_exists, after_queue,
                   threads, runs>>
    /\ UNCHANGED <<ctl_vars, wcall, json_vars>>

\* gui.py:254-271
_open_output ==
    /\ Clickable("open_output")
    /\ ui_calls' = ui_calls \cup
                   (IF output_exists THEN {UiCall("output_text", "main")} ELSE {UiCall("messagebox", "main")})
    /\ UNCHANGED <<docx_path, buttons, response_exists, output_exists, after_queue,
                   threads, runs>>
    /\ UNCHANGED <<ctl_vars, wcall, json_vars>>

\* gui.py:273-365: the settings window touches neither the buttons nor a worker
_open_settings ==
    /\ Clickable("settings")
    /\ ui_calls' = ui_calls \cup {UiCall("settings_window", "main")}
    /\ UNCHANGED <<docx_path, buttons, response_exists, output_exists, after_queue,
                   threads, runs>>
    /\ UNCHANGED <<ctl_vars, wcall, json_vars>>

\* what a call of generate_slide or regenerate_slide can do before it returns
\* (ok) or raises: print its progress, write response.txt, save output.pptx
Outcomes(target) ==
    {o \in [ok : BOOLEAN, printed : BOOLEAN, response : BOOLEAN, output : BOOLEAN] :
        /\ o.ok => o.printed /\ o.output
        /\ o.output => o.printed
        /\ IF target = "run_generation"
           THEN (o.ok => o.response) /\ (o.response => o.printed)
                /\ (o.output => o.response)
           ELSE ~o.response}

\* gui.py:186 and 219: the assembly call of the worker at threads[k], up to
\* builder.create_blank() (slide.py:8-29, 58-72): the call raises before it
\* has an output deck, or goes on to build one
assembly(k, call) ==
    /\ threads[k].pc = call
    /\ \E o \in Outcomes(threads[k].target) :
        /\ ui_calls' = ui_calls \cup (IF o.printed THEN {UiCall("output_text", "worker")} ELSE {})
        /\ response_exists' = (response_exists \/ o.response)
        /\ threads' = [threads EXCEPT ![k].pc = IF o.output THEN "create_blank" ELSE "except"]
    /\ UNCHANGED <<docx_path, buttons, output_exists, after_queue, runs>>
    /\ UNCHANGED <<ctl_vars, wcall, json_vars>>

\* SlideBuilder.get_powerpoint_instance (30-36) called by the worker at
\* threads[k]: the test at 32, then, when it saw None, the Dispatch and the
\* assignment at 33-34 as a step of their own. The call returns the instance
\* the class holds then, named by the number of Dispatch calls made so far;
\* create_blank goes on to save the empty output file (68)
get_powerpoint_instance(k, at, next) ==
    /\ threads[k].pc = at
    /\ IF threads[k].dispatching
       THEN /\ powerpoint_instance' = "app"
            /\ trace' = Append(trace, Event("Dispatch", threads[k].run))
            /\ threads' = [threads EXCEPT ![k].pc = next,
                                          ![k].dispatching = FALSE,
                                          ![k].session = Append(@, Count("Dispatch") + 1)]
            /\ output_exists' = (output_exists \/ at = "create_blank")
       ELSE IF powerpoint_instance = "None"
       THEN /\ threads' = [threads EXCEPT ![k].dispatching = TRUE]
            /\ UNCHANGED <<powerpoint_instance, trace, output_exists>>
       ELSE /\ threads' = [threads EXCEPT ![k].pc = next,
                                          ![k].session = Append(@, Count("Dispatch"))]
            /\ output_exists' = (output_exists \/ at = "create_blank")
            /\ UNCHANGED <<powerpoint_instance, trace>>
    /\ UNCHANGED <<docx_path, buttons, response_exists, after_queue, ui_calls, runs>>
    /\ UNCHANGED <<pc, data, library, presentation, deck, disk, slide, shape_cache,
                   slides_to_copy, i, exc, copied, calls>>
    /\ UNCHANGED <<wcall, json_vars>>

\* slide.py:29-53 in the worker at threads[k]: create_blank (53), copy_slides
\* (130) and open_output (74) reach for the session; a line from copy_slides
\* on raises, leaving the session as it is, or the run ends with
\* SlideBuilder.quit_powerpoint() (slide.py:53, SlideBuilder.py:38-43)
_build_slide(k) ==
    \/ get_powerpoint_instance(k, "create_blank", "copy_slides")
    \/ get_powerpoint_instance(k, "copy_slides", "open_output")
    \/ get_powerpoint_instance(k, "open_output", "fill")
    \/ /\ threads[k].pc \in {"copy_slides", "open_output", "fill"}
       /\ ~threads[k].dispatching
       /\ threads' = [threads EXCEPT ![k].pc = "except"]
       /\ UNCHANGED <<docx_path, buttons, response_exists, output_exists, after_queue,
                      ui_calls, runs>>
       /\ UNCHANGED <<ctl_vars, wcall, json_vars>>
    \/ /\ threads[k].pc = "fill"
       /\ IF powerpoint_instance # "None"
          THEN /\ powerpoint_instance' = "None"
               /\ trace' = Append(trace, Event("Quit", threads[k].run))
          ELSE UNCHANGED <<powerpoint_instance, trace>>
       /\ threads' = [threads EXCEPT ![k].pc =
                          IF threads[k].target = "run_generation"
                          THEN "after_regenerate" ELSE "print_complete"]
       /\ UNCHANGED <<docx_path, buttons, response_exists, output_exists, after_queue,
                      ui_calls, runs>>
       /\ UNCHANGED <<pc, data, library, presentation, deck, disk, slide, shape_cache,
                      slides_to_copy, i, exc, copied, calls>>
       /\ UNCHANGED <<wcall, json_vars>>

\* root.after(0, callback) called by the worker at threads[k]
after(k, at, callback, next) ==
    /\ threads[k].pc = at
    /\ after_queue' = Append(after_queue, [callback |-> callback,
                                            started |-> threads[k].started])
    /\ threads' = IF next = "return"
                  THEN SubSeq(threads, 1, k - 1) \o SubSeq(threads, k + 1, Len(threads))
                  ELSE [threads EXCEPT ![k].pc = next]
    /\ UNCHANGED <<docx_path, buttons, response_exists, output_exists, ui_calls, runs>>
    /\ UNCHANGED <<ctl_vars, wcall, json_vars>>

\* print(...) called by the worker at threads[k]
worker_print(k, at, next) ==
    /\ threads[k].pc = at
    /\ ui_calls' = ui_calls \cup {UiCall("output_text", "worker")}
    /\ threads' = [threads EXCEPT ![k].pc = next]
    /\ UNCHANGED <<docx_path, buttons, response_exists, output_exists, after_queue,
                   runs>>
    /\ UNCHANGED <<ctl_vars, wcall, json_vars>>

\* gui.py:184-199, run_generation, one statement at a time
run_generation(k) ==
    /\ threads[k].target = "run_generation"
    /\ \/ assembly(k, "generate_slide")
       \/ after(k, "after_regenerate", "regenerate_button", "after_view_response")
       \/ after(k, "after_view_response", "view_response_button", "after_open_output")
       \/ after(k, "after_open_output", "open_output_button", "finally")

\* gui.py:215-229, run_regeneration, one statement (or run of prints) at a time
run_regeneration(k) ==
    /\ threads[k].target = "run_regeneration"
    /\ \/ worker_print(k, "print_start", "regenerate_slide")
       \/ assembly(k, "regenerate_slide")
       \/ worker_print(k, "print_complete", "finally")

\* gui.py:193-195 and 226-228: the except clause prints, then opens the dialog
worker_except(k) ==
    \/ worker_print(k, "except", "showerror")
    \/ /\ threads[k].pc = "showerror"
       /\ ui_calls' = ui_calls \cup {UiCall("messagebox", "worker")}
       /\ threads' = [threads EXCEPT ![k].pc = "dialog"]
       /\ UNCHANGED <<docx_path, buttons, response_exists, output_exists,
                      after_queue, runs>>
       /\ UNCHANGED <<ctl_vars, wcall, json_vars>>

\* the user closes the error dialog; showerror returns in the worker
dismiss_error(k) ==
    /\ threads[k].pc = "dialog"
    /\ threads' = [threads EXCEPT ![k].pc = "finally"]
    /\ UNCHANGED <<docx_path, buttons, response_exists, output_exists, after_queue,
                   ui_calls, runs>>
    /\ UNCHANGED <<ctl_vars, wcall, json_vars>>

\* gui.py:196-198 and 229-231: the finally clause, then the thread ends
worker_finally(k) == after(k, "finally", "_set_buttons_state", "return")

\* the Tk main loop runs the oldest root.after callback
\* (gui.py:187-192: the three lambdas; 197-198 and 230-231: the fourth)
mainloop_after ==
    /\ after_queue # <<>>
    /\ after_queue' = Tail(after_queue)
    /\ buttons' = CASE Head(after_queue).callback = "regenerate_button" ->
                         [buttons EXCEPT !["regenerate"] = NORMAL]
                    [] Head(after_queue).callback = "view_response_button" ->
                         [buttons EXCEPT !["view_response"] = NORMAL]
                    [] Head(after_queue).callback = "open_output_button" ->
                         [buttons EXCEPT !["open_output"] = NORMAL]
                    [] Head(after_queue).callback = "_set_buttons_state" ->
                         _set_buttons_state(buttons, NORMAL, TRUE, docx_path)
    /\ ui_calls' = ui_calls \cup {UiCall("buttons", "main")}
    /\ UNCHANGED <<docx_path, response_exists, output_exists, threads, runs>>
    /\ UNCHANGED <<ctl_vars, wcall, json_vars>>

GuiNext ==
    \/ _browse_file
    \/ _generate
    \/ _regenerate
    \/ _view_response
    \/ _open_output
    \/ _open_settings
    \/ \E k \in DOMAIN threads : run_generation(k)
    \/ \E k \in DOMAIN threads : run_regeneration(k)
    \/ \E k \in DOMAIN threads : _build_slide(k)
    \/ \E k \in DOMAIN threads : worker_except(k)
    \/ \E k \in DOMAIN threads : dismiss_error(k)
    \/ \E k \in DOMAIN threads : worker_finally(k)
    \/ mainloop_after

GuiSpec == GuiInit /\ [][GuiNext]_vars

\* the worker at threads[k] has not finished its assembly run
InFlight(k) ==
    threads[k].pc \in {"generate_slide", "print_start", "regenerate_slide",
                       "create_blank", "copy_slides", "open_output", "fill"}

\* C11: at most one worker is in flight: no worker thread is started while an
\* earlier one has not finished its assembly run
C11_Original == Cardinality({k \in DOMAIN threads : InFlight(k)}) <= 1

\* C21: within one assembly run the session is acquired exactly once, on the
\* run's first use of it; every later get_powerpoint_instance call of the run
\* returns that same instance; the session is not released while the run is
\* under way; and never are two application instances live
C21_Original ==
    /\ Count("Dispatch") - Count("Quit") <= 1
    /\ \A k \in DOMAIN threads :
           LET acquired == Cardinality({n \in DOMAIN trace :
                                           trace[n] = Event("Dispatch", threads[k].run)})
           IN  /\ acquired <= 1
               /\ threads[k].session # <<>> => acquired = 1
               /\ \A n \in DOMAIN threads[k].session :
                      threads[k].session[n] = threads[k].session[1]
               /\ (threads[k].session # <<>> /\ InFlight(k)) =>
                      powerpoint_instance # "None"


\* C29: when the last completion callback of a run (Generate or Regenerate,
\* ended well or not) has executed, the Regenerate and Open Output buttons
\* are enabled if they were enabled when the run was started
C29_Original ==
    [][(/\ after_queue # <<>>
        /\ Head(after_queue).callback = "_set_buttons_state"
        /\ after_queue' = Tail(after_queue)) =>
           \A b \in {"regenerate", "open_output"} :
               Head(after_queue).started[b] = NORMAL => buttons'[b] = NORMAL]_vars


\* C12: the worker never changes the UI itself: every widget update, log line
\* and error dialog is made on the Tk main thread
C12_Original == \A u \in ui_calls : u.thread = "main"

---------------------------------------------------------------------------
(* The model response: Summarise.py:74-81 and the two JSON loaders of slide.py *)
(* A text is a sequence of one-character strings.                            *)

MaxDepth == 2

Whitespace == {" ", NL}

Closers == {"}", "]"}

Digits == {"1", "2"}

Quote == "\""

\* a loaded value: a "string" (its text), a "number", an "array" (a sequence)
\* or an "object" (a dict: a function from key, a text, to value)
J(t, v) == [t |-> t, v |-> v]

RECURSIVE skip_ws(_, _)
\* the first position from p on that holds no whitespace
skip_ws(text, p) ==
    IF p <= Len(text) /\ text[p] \in Whitespace THEN skip_ws(text, p + 1) ELSE p

\* the pattern without \s*: only a comma directly at the closer
MatchesCloser_no_space(text, p) ==
    IF p <= Len(text) /\ text[p] \in Closers THEN p + 1 ELSE 0

\* the regular expression \s*[}\]] matched at position p: the position after
\* the match, 0 if there is none
MatchesCloser(text, p) ==
    LET q == skip_ws(text, p)
    IN  IF q <= Len(text) /\ text[q] \in Closers THEN q + 1 ELSE 0

RECURSIVE re_sub(_, _)
\* Summarise.py:79-80: re.sub(r',(\s*[}\]])', r'\1', text), scanning from p
re_sub(text, p) ==
    IF p > Len(text) THEN <<>>
    ELSE IF text[p] = "," /\ MatchesCloser(text, p + 1) # 0
         THEN SubSeq(text, p + 1, MatchesCloser(text, p + 1) - 1)
              \o re_sub(text, MatchesCloser(text, p + 1))
         ELSE <<text[p]>> \o re_sub(text, p + 1)

\* a parse result: the value and the position after it, or a failure
Parsed(v, p) == [ok |-> TRUE, v |-> v, pos |-> p]

Fail == [ok |-> FALSE, v |-> JNull, pos |-> 0]

At(text, p, ch) == p <= Len(text) /\ text[p] = ch

RECURSIVE scanstring(_, _, _)
\* json.decoder.scanstring from the character after the opening quote; a
\* control character (here the newline) inside a string is an error
scanstring(text, p, acc) ==
    IF p > Len(text) \/ text[p] = NL THEN Fail
    ELSE IF text[p] = Quote THEN Parsed(acc, p + 1)
    ELSE scanstring(text, p + 1, Append(acc, text[p]))

RECURSIVE scan_number(_, _, _)
\* the digits from p on, as an int
scan_number(text, p, n) ==
    IF p <= Len(text) /\ text[p] \in Digits
    THEN scan_number(text, p + 1, 10 * n + (IF text[p] = "1" THEN 1 ELSE 2))
    ELSE Parsed(J("number", n), p)

RECURSIVE scan_once(_, _)
RECURSIVE JSONObject(_, _, _)
RECURSIVE JSONArray(_, _, _)

\* json.scanner.scan_once at position p
scan_once(text, p) ==
    IF p > Len(text) THEN Fail
    ELSE IF text[p] = Quote
         THEN LET r == scanstring(text, p + 1, <<>>)
              IN  IF r.ok THEN Parsed(J("string", r.v), r.pos) ELSE Fail
    ELSE IF text[p] = "{"
         THEN LET q == skip_ws(text, p + 1)
              IN  IF At(text, q, "}") THEN Parsed(J("object", <<>>), q + 1)
                  ELSE JSONObject(text, q, <<>>)
    ELSE IF text[p] = "["
         THEN LET q == skip_ws(text, p + 1)
              IN  IF At(text, q, "]") THEN Parsed(J("array", <<>>), q + 1)
                  ELSE JSONArray(text, q, <<>>)
    ELSE IF text[p] \in Digits THEN scan_number(text, p, 0)
    ELSE Fail

\* json.decoder.JSONObject from the position p of a member's key, with the
\* members read so far; a later member of the same key replaces the earlier
JSONObject(text, p, members) ==
    IF ~At(text, p, Quote) THEN Fail
    ELSE LET key == scanstring(text, p + 1, <<>>)
         IN  IF ~key.ok \/ ~At(text, skip_ws(text, key.pos), ":") THEN Fail
             ELSE LET value == scan_once(text, skip_ws(text, skip_ws(text, key.pos) + 1))
                  IN  IF ~value.ok THEN Fail
                      ELSE LET q == skip_ws(text, value.pos)
                               all == (key.v :> value.v) @@ members
                           IN  IF At(text, q, "}") THEN Parsed(J("object", all), q + 1)
                               ELSE IF At(text, q, ",")
                                    THEN JSONObject(text, skip_ws(text, q + 1), all)
                               ELSE Fail

\* json.decoder.JSONArray from the position p of an element, with the
\* elements read so far
JSONArray(text, p, elems) ==
    LET value == scan_once(text, p)
    IN  IF ~value.ok THEN Fail
        ELSE LET q == skip_ws(text, value.pos)
                 all == Append(elems, value.v)
             IN  IF At(text, q, "]") THEN Parsed(J("array", all), q + 1)
                 ELSE IF At(text, q, ",")
                      THEN JSONArray(text, skip_ws(text, q + 1), all)
                 ELSE Fail

RECURSIVE JEq(_, _)
\* Python's == on two parsed values
JEq(a, b) ==
    /\ a.t = b.t
    /\ CASE a.t = "array" ->
              /\ Len(a.v) = Len(b.v)
              /\ \A k \in DOMAIN a.v : JEq(a.v[k], b.v[k])
         [] a.t = "object" ->
              /\ DOMAIN a.v = DOMAIN b.v
              /\ \A k \in DOMAIN a.v : JEq(a.v[k], b.v[k])
         [] OTHER -> a.v = b.v

\* two load results are the same failure or equal values
SameLoad(a, b) == a.status = b.status /\ JEq(a.value, b.value)

Loaded(value) == [status |-> "ok", value |-> value]

JSONDecodeError == [status |-> "JSONDecodeError", value |-> JNull]

\* json.loads(text) / json.load(f): the value, or JSONDecodeError
json_loads(text) ==
    LET r == scan_once(text, skip_ws(text, 1))
    IN  IF r.ok /\ skip_ws(text, r.pos) > Len(text) THEN Loaded(r.v)
        ELSE JSONDecodeError

\* string values, two of them holding a comma before a closer
StringBodies == {<<"b">>, <<"b", ",", "}">>, <<"b", ",", " ", "]">>}

\* what the model puts before a closing brace or bracket
Trails == {<<>>, <<",">>, <<",", " ", NL>>}

RECURSIVE Docs(_)
\* responses nested up to depth d, each with the value it stands for
Docs(d) ==
    IF d = 0
    THEN {[text |-> <<Quote>> \o b \o <<Quote>>, value |-> J("string", b)] :
             b \in StringBodies}
         \cup {[text |-> <<"1">>, value |-> J("number", 1)]}
    ELSE Docs(d - 1)
         \cup {[text |-> <<"[">> \o x.text \o t \o <<"]">>,
                 value |-> J("array", <<x.value>>)] :
                  x \in Docs(d - 1), t \in Trails}
         \cup {[text |-> <<"[", "2", ",", " ">> \o x.text \o t \o <<"]">>,
                 value |-> J("array", <<J("number", 2), x.value>>)] :
                  x \in Docs(d - 1), t \in Trails}
         \cup {[text |-> <<"{", Quote, "a", Quote, ":", " ">> \o x.text \o t \o <<"}">>,
                 value |-> J("object", <<"a">> :> x.value)] :
                  x \in Docs(d - 1), t \in Trails}

\* responses that are no JSON with or without their trailing commas
Malformed == {[text |-> <<>>, value |-> JNull], [text |-> <<"{">>, value |-> JNull],
              [text |-> <<"[", "1", ",", ",", "]">>, value |-> JNull]}

JsonInit ==
    /\ \E x \in Docs(MaxDepth) \cup Malformed :
           response_content = x.text /\ intended = x.value
    /\ jpc = "write_response"
    /\ response_txt = NoFile
    /\ cleaned_response = <<>>
    /\ gen_data = NotLoaded
    /\ regen_data = NotLoaded
    /\ ControllerOff
    /\ wcall = NoCall
    /\ GuiConstructed(FALSE, FALSE)

\* Summarise.py:74-76
write_response ==
    /\ jpc = "write_response"
    /\ response_txt' = [exists |-> TRUE, text |-> response_content]
    /\ jpc' = "clean"
    /\ UNCHANGED <<response_content, cleaned_response, gen_data, regen_data, intended>>
    /\ UNCHANGED <<ctl_vars, wcall, gui_vars>>

\* Summarise.py:79-81
clean_response ==
    /\ jpc = "clean"
    /\ cleaned_response' = re_sub(response_content, 1)
    /\ jpc' = "loads"
    /\ UNCHANGED <<response_content, response_txt, gen_data, regen_data, intended>>
    /\ UNCHANGED <<ctl_vars, wcall, gui_vars>>

\* slide.py:10-13
_get_response ==
    /\ jpc = "loads"
    /\ gen_data' = json_loads(cleaned_response)
    /\ jpc' = "generated"
    /\ UNCHANGED <<response_content, response_txt, cleaned_response, regen_data,
                   intended>>
    /\ UNCHANGED <<ctl_vars, wcall, gui_vars>>

\* slide.py:70-72, on the file the generation left
regenerate_slide ==
    /\ jpc = "generated"
    /\ response_txt.exists
    /\ regen_data' = json_loads(response_txt.text)
    /\ jpc' = "regenerated"
    /\ UNCHANGED <<response_content, response_txt, cleaned_response, gen_data,
                   intended>>
    /\ UNCHANGED <<ctl_vars, wcall, gui_vars>>

JsonNext ==
    \/ write_response
    \/ clean_response
    \/ _get_response
    \/ regenerate_slide

JsonSpec == JsonInit /\ [][JsonNext]_vars

\* C13: whatever response the generation parsed, regenerate_slide parses the
\* saved response file too, and to an equal plan
C13_Original ==
    (jpc = "regenerated" /\ gen_data.status = "ok") => SameLoad(regen_data, gen_data)

\* the positions of the commas that have only whitespace between them and a
\* closing brace or bracket
TrailingCommas(text) ==
    {p \in DOMAIN text :
        /\ text[p] = ","
        /\ \E q \in DOMAIN text :
            /\ q > p
            /\ text[q] \in Closers
            /\ \A r \in (p + 1)..(q - 1) : text[r] \in Whitespace}

\* text without the characters at the positions P
Omit(text, P) ==
    LET keep == {p \in DOMAIN text : p \notin P}
        at[n \in 0..Len(text)] ==
            IF n = 0 THEN <<>>
            ELSE IF n \in keep THEN Append(at[n - 1], text[n]) ELSE at[n - 1]
    IN  at[Len(text)]

\* position p lies inside a string literal
InString(text, p) ==
    Cardinality({q \in 1..(p - 1) : text[q] = Quote}) % 2 = 1

\* C14: every comma that is followed, after optional whitespace, by a closing
\* brace or bracket is removed, at any depth; a payload that is JSON up to
\* such commas then parses, to the value it stands for when none of them lies
\* in a string; {"a": 1,} parses to {"a": 1}
C14_TrailingCommas ==
    /\ jpc \in {"loads", "generated", "regenerated"} =>
           cleaned_response = Omit(response_content, TrailingCommas(response_content))
    /\ (jpc \in {"generated", "regenerated"} /\ intended.t # "null") =>
           /\ gen_data.status = "ok"
           /\ (\A p \in TrailingCommas(response_content) :
                   ~InString(response_content, p)) => JEq(gen_data.value, intended)
    /\ (jpc \in {"generated", "regenerated"}
        /\ response_content = <<"{", Quote, "a", Quote, ":", " ", "1", ",", "}">>) =>
           SameLoad(gen_data, Loaded(J("object", <<"a">> :> J("number", 1))))

\* C30: for a response that is valid JSON as it stands, parsing the
\* normalized text gives the value that parsing the response itself gives:
\* a string value holding a comma before a closing brace or bracket reaches
\* the filler as the model wrote it
C30_Original ==
    (/\ jpc \in {"generated", "regenerated"}
     /\ json_loads(response_content).status = "ok") =>
        /\ SameLoad(gen_data, json_loads(response_content))
        /\ JEq(gen_data.value, intended)


\* a response with trailing commas at two depths has been cleaned and parsed
C14_Witness ==
    /\ jpc = "generated"
    /\ Cardinality(TrailingCommas(response_content)) >= 2
    /\ \A p \in TrailingCommas(response_content) : ~InString(response_content, p)
    /\ SameLoad(gen_data, Loaded(intended))

---------------------------------------------------------------------------
(* The four field writers called directly on the active slide *)

MaxShapes == 2

MaxWrites == 1

\* the shapes a slide is made of: names equal up to case on shapes of every
\* kind, and a group whose children repeat a name
ShapePool ==
    {TextShape("Title 1", TemplateText),
     TextShape("TITLE 1", TemplateText),
     TextShape("Titre 1", TemplateText),
     TableShape("Title 1", 2, 3, TemplateText),
     GroupShape("TITLE 1", <<GroupItem("ZoneTexte 111", TRUE, TemplateText),
                             GroupItem("zonetexte 111", TRUE, TemplateText),
                             GroupItem("ZoneTexte 109", FALSE, TemplateText),
                             GroupItem("zonetexte 109", TRUE, TemplateText)>>),
     PictureShape("Title 1"),
     StrictPictureShape("Title 1")}

\* the shape_name / group_name arguments
QueryNames == {"TITLE 1", "no such shape"}

\* the shape_name argument of _set_group_text
ChildNames == {"ZoneTexte 111", "ZoneTexte 109", "no such shape"}

\* the row and col arguments
CellIndices == 1..3

WriterInit ==
    /\ \E n \in 1..MaxShapes : \E S \in [1..n -> ShapePool] :
           deck = <<[src |-> 0, shapes |-> S]>>
    /\ pc = "writers"
    /\ data = Plan(<<>>, <<>>)
    /\ library = "full"
    /\ powerpoint_instance = "app"
    /\ presentation = "open"
    /\ disk = <<>>
    /\ slide = 0
    /\ shape_cache = NoEnv
    /\ slides_to_copy = <<>>
    /\ i = 0
    /\ exc = NoExc
    /\ copied = <<>>
    /\ calls = <<>>
    /\ trace = <<>>
    /\ wcall = NoCall
    /\ GuiConstructed(FALSE, FALSE)
    /\ NoResponse

\* the two opening lines of every filler: self.slide = Slides(index);
\* self._build_shape_cache()
select_slide ==
    /\ pc = "writers"
    /\ slide = 0
    /\ slide' = 1
    /\ shape_cache' = _build_shape_cache(deck[1].shapes)
    /\ UNCHANGED <<pc, data, library, powerpoint_instance, presentation, deck, disk,
                   slides_to_copy, i, exc, copied, calls, trace>>
    /\ UNCHANGED <<wcall, gui_vars, json_vars>>

\* a writer call returns or raises e, leaving the slide with the shapes result
Written(call, result, e) ==
    /\ pc = "writers"
    /\ Len(trace) < MaxWrites
    /\ wcall' = [call EXCEPT !.before = deck[1].shapes, !.exc = e]
    /\ deck' = [deck EXCEPT ![1].shapes = result]
    /\ trace' = Append(trace, Event(call.op, slide))
    /\ UNCHANGED <<pc, data, library, powerpoint_instance, presentation, disk, slide,
                   shape_cache, slides_to_copy, i, exc, copied, calls>>
    /\ UNCHANGED <<gui_vars, json_vars>>

\* SlideBuilder.py:168-172
call_set_text ==
    \E name \in QueryNames :
        Written([NoCall EXCEPT !.op = "_set_text", !.shape_name = name,
                               !.text = <<"X">>],
                _set_text(deck[1].shapes, shape_cache, name, <<"X">>), NoExc)

\* SlideBuilder.py:174-185
call_set_bullets ==
    \E name \in QueryNames : \E formatted \in BOOLEAN :
        Written([NoCall EXCEPT !.op = "_set_bullets", !.shape_name = name,
                               !.text = join(<<<<"X">>, <<"Y">>>>)],
                _set_bullets(deck[1].shapes, shape_cache, name,
                             <<<<"X">>, <<"Y">>>>, formatted), NoExc)

\* SlideBuilder.py:187-202
call_set_table_cell ==
    \E name \in QueryNames : \E row \in CellIndices : \E col \in CellIndices :
        Written([NoCall EXCEPT !.op = "_set_table_cell", !.shape_name = name,
                               !.row = row, !.col = col, !.text = <<"X">>],
                _set_table_cell(deck[1].shapes, shape_cache, name, row, col, <<"X">>),
                NoExc)

\* SlideBuilder.py:204-221
call_set_group_text ==
    \E group \in QueryNames : \E name \in ChildNames :
        LET call == [NoCall EXCEPT !.op = "_set_group_text", !.group_name = group,
                                   !.shape_name = name, !.text = <<"X">>]
        IN  IF _set_group_text_raises(deck[1].shapes, shape_cache, group)
            THEN Written(call, deck[1].shapes, com_error("GroupItems"))
            ELSE Written(call, _set_group_text(deck[1].shapes, shape_cache, group,
                                               name, <<"X">>), NoExc)

WriterNext ==
    \/ select_slide
    \/ call_set_text
    \/ call_set_bullets
    \/ call_set_table_cell
    \/ call_set_group_text

WriterSpec == WriterInit /\ [][WriterNext]_vars

\* the shapes of the slide the writers work on, as the last call left them
Shapes == deck[1].shapes

\* the positions of the shapes whose name equals name ignoring case
Hits(shapes, name) == {j \in DOMAIN shapes : lower(shapes[j].Name) = lower(name)}

First(S) == CHOOSE j \in S : \A k \in S : j <= k

\* the last call was made with a slide selected
Selected == trace # <<>> /\ trace[Len(trace)].pos # 0

\* the name the last call looked up in the cache
Looked == IF wcall.op = "_set_group_text" THEN wcall.group_name ELSE wcall.shape_name

\* C15: lookup by name ignores case and, of several shapes whose names are
\* equal ignoring case, takes the first in iteration order: a write by name
\* lands on the first such shape and leaves the later ones untouched
C15_Original ==
    (wcall.op = "_set_text" /\ Selected /\ Hits(wcall.before, Looked) # {}) =>
        LET first == First(Hits(wcall.before, Looked))
        IN  /\ wcall.before[first].HasTextFrame => Shapes[first].Text = wcall.text
            /\ \A j \in Hits(wcall.before, Looked) \ {first} :
                   Shapes[j] = wcall.before[j]

\* the shape sh can take the writer op, with these cell coordinates if a table
Capable(op, sh, row, col) ==
    CASE op \in {"_set_text", "_set_bullets"} -> sh.HasTextFrame
      [] op = "_set_table_cell" -> sh.HasTable /\ <<row, col>> \in DOMAIN sh.Table
      [] op = "_set_group_text" -> sh.HasGroupItems

\* C16: a writer call whose named shape is absent, or lacks the capability
\* the writer needs, or (for a table cell) whose row or column is out of
\* range, raises nothing and changes no shape
C16_Original ==
    (/\ wcall.op # "none"
     /\ \/ ~Selected
        \/ \A j \in Hits(wcall.before, Looked) :
               ~Capable(wcall.op, wcall.before[j], wcall.row, wcall.col)) =>
        wcall.exc = NoExc /\ Shapes = wcall.before

\* C19: _set_table_cell on a table with the row and column in range sets the
\* text of that cell and leaves every other cell of the table and every
\* other shape of the slide unchanged
C19_TableCell ==
    (/\ wcall.op = "_set_table_cell"
     /\ Selected
     /\ Hits(wcall.before, Looked) # {}
     /\ \A j \in Hits(wcall.before, Looked) :
            Capable(wcall.op, wcall.before[j], wcall.row, wcall.col)) =>
        \E t \in Hits(wcall.before, Looked) :
            /\ Capable(wcall.op, wcall.before[t], wcall.row, wcall.col)
            /\ Shapes[t].Table[<<wcall.row, wcall.col>>] = wcall.text
            /\ \A rc \in DOMAIN wcall.before[t].Table \ {<<wcall.row, wcall.col>>} :
                   Shapes[t].Table[rc] = wcall.before[t].Table[rc]
            /\ [Shapes[t] EXCEPT !.Table = wcall.before[t].Table] = wcall.before[t]
            /\ DOMAIN Shapes = DOMAIN wcall.before
            /\ \A j \in DOMAIN wcall.before \ {t} : Shapes[j] = wcall.before[j]
            /\ wcall.exc = NoExc

\* cell (2, 3) of a table on a two-shape slide has been written
C19_Witness ==
    /\ wcall.op = "_set_table_cell"
    /\ Selected
    /\ wcall.row = 2 /\ wcall.col = 3
    /\ Len(Shapes) >= 2
    /\ \E t \in DOMAIN Shapes :
           /\ Shapes[t].HasTable
           /\ Shapes[t].Table[<<2, 3>>] = <<"X">>
           /\ Shapes[t].Table[<<1, 1>>] = TemplateText

\* the last operation on the deck was a filler call, which returned or raised
JustFilled == trace # <<>> /\ trace[Len(trace)].op = "Fill"

\* the filler call that was made last, made again on the deck as it is now
FilledAgain ==
    LET c == calls[Len(calls)]
    IN  RunFiller(IF c.id = 0 THEN fill_slide_type_title ELSE getattr(c.id),
                  deck, c.index, c.title, c.content)

\* C17: a filler run a second time on the same slide with the same title and
\* slot map leaves every shape and table cell as the first run left it (and
\* raises what the first run raised)
C17_Idempotent == JustFilled => FilledAgain.slides = deck /\ FilledAgain.exc = exc

\* filler 69 has fanned a value of several lines out over its zone shapes
C17_Witness ==
    /\ JustFilled
    /\ calls[Len(calls)].id = 69
    /\ exc = NoExc
    /\ \E j \in DOMAIN deck[2].shapes : deck[2].shapes[j].Text = <<"detail_1", "'">>

\* C18: the plan "Q1 Review" with the one entry {slide_index 7, slide_title
\* "Overview", slots {}}, run against a library whose slides 1 and 7 have a
\* title shape that takes text, leaves a deck of two slides on disk: the copy
\* of library slide 1 with its title set to "Q1 Review", and the copy of
\* library slide 7 with its title set to "Overview" and every other shape as
\* in the library
C18_EndToEnd ==
    (/\ pc = "done"
     /\ data = Plan(<<"Q1 Review">>, <<Entry(7, <<"Overview">>, Slots({}))>>)
     /\ library # "nocap") =>
        /\ Len(disk) = 2
        /\ disk[1] = [LibrarySlide(library, 1) EXCEPT !.shapes[1].Text = <<"Q1 Review">>]
        /\ disk[2] = [LibrarySlide(library, 7) EXCEPT !.shapes[1].Text = <<"Overview">>]

\* that run has ended, with the footer of slide 2 as the library has it
C18_Witness ==
    /\ pc = "done"
    /\ data = Plan(<<"Q1 Review">>, <<Entry(7, <<"Overview">>, Slots({}))>>)
    /\ library = "full"
    /\ Len(disk) = 2
    /\ disk[2].src = 7
    /\ disk[2].shapes[1].Text = <<"Overview">>
    /\ disk[2].shapes[2] = TextShape("footer", TemplateText)

\* C20: the writers of a filler called with output position p work through
\* a cache whose keys are exactly the lower-cased names of the shapes of
\* slide p of the output deck and whose every entry is a shape of that slide
\* with that name: nothing of the slide that was active before is left in it
C20_FreshCache ==
    (JustFilled /\ calls[Len(calls)].index \in DOMAIN deck) =>
        LET p == calls[Len(calls)].index
            on_slide == deck[p].shapes
        IN  /\ slide = p
            /\ DOMAIN shape_cache = {lower(on_slide[j].Name) : j \in DOMAIN on_slide}
            /\ \A n \in DOMAIN shape_cache :
                   /\ shape_cache[n] \in DOMAIN on_slide
                   /\ lower(on_slide[shape_cache[n]].Name) = n

\* a filler has written on slide 2 after the title filler worked on slide 1:
\* the title slide's "title 1" is no key of the cache
C20_Witness ==
    /\ JustFilled
    /\ Len(calls) = 2
    /\ calls[2].index = 2
    /\ slide = 2
    /\ "title 1" \in {lower(deck[1].shapes[j].Name) : j \in DOMAIN deck[1].shapes}
    /\ "title 1" \notin DOMAIN shape_cache
    /\ Cardinality(DOMAIN shape_cache) >= 3
    /\ deck[2].shapes # LibrarySlide(library, deck[2].src).shapes

\* every text a shape shows: its own, its table cells', its group children's
TextsOf(shape) ==
    {shape.Text} \cup {shape.Table[rc] : rc \in DOMAIN shape.Table}
                 \cup {shape.GroupItems[j].Text : j \in DOMAIN shape.GroupItems}

\* the texts on slide p of the output deck that hold the token
Holding(token, p) ==
    {t \in UNION {TextsOf(deck[p].shapes[j]) : j \in DOMAIN deck[p].shapes} :
        \E n \in DOMAIN t : t[n] = token}

\* a filler was called on slide 2, a copy from the library that has every
\* shape the filler names
FilledFull == JustFilled /\ Len(calls) = 2 /\ calls[2].index = 2 /\ library = "full"

\* C22: every slot key of the template that is present in the slot map has
\* its own value written to a shape or table cell of the slide, whichever
\* other keys are present: every word of the value is found on the slide
C22_Original ==
    FilledFull =>
        \A k \in DOMAIN calls[2].content :
            \A n \in DOMAIN calls[2].content[k] :
                calls[2].content[k][n] # NL => Holding(calls[2].content[k][n], 2) # {}

\* the text of the shape of that name on slide 2 of the output deck
TextAt(name) ==
    LET j == CHOOSE n \in DOMAIN deck[2].shapes :
                 lower(deck[2].shapes[n].Name) = lower(name)
    IN  deck[2].shapes[j].Text

\* the value the last filler call was given for the key, line by line: line j
\* lies between the (j-1)-th and the j-th newline of the value, and a newline
\* that ends the value starts no line
Points(key) ==
    LET text == calls[Len(calls)].content[key]
        brk == {n \in DOMAIN text : text[n] = NL}
        nth(j) == IF j = 0 THEN 0
                  ELSE IF j > Cardinality(brk) THEN Len(text) + 1
                  ELSE CHOOSE b \in brk : Cardinality({c \in brk : c <= b}) = j
        count == IF text = <<>> THEN 0
                 ELSE IF text[Len(text)] = NL THEN Cardinality(brk)
                 ELSE Cardinality(brk) + 1
    IN  [j \in 1..count |-> SubSeq(text, nth(j - 1) + 1, nth(j) - 1)]

\* the key's value is present and has more than five lines
Overflows(key) == key \in DOMAIN calls[Len(calls)].content /\ Len(Points(key)) > 5

\* the five shapes, in order, that template 69 spreads the key's lines over
ZoneList(key) ==
    IF key = "detail_1"
    THEN <<"ZoneTexte 77", "ZoneTexte 78", "ZoneTexte 80", "ZoneTexte 86", "ZoneTexte 86-2">>
    ELSE <<"ZoneTexte 47", "ZoneTexte 48", "ZoneTexte 49", "ZoneTexte 50", "ZoneTexte 50-2">>


\* C23: template 69 given a detail_1 (or detail_2) value of more than five
\* lines raises IndexError out of the filler into _build_slide; by then the
\* five shapes of the value's zone list hold its first five lines, and no
\* slot after it has been processed (after detail_1 the shapes of detail_2
\* still hold the template's text)
C23_Overflow ==
    (FilledFull /\ calls[2].id = 69 /\ (Overflows("detail_1") \/ Overflows("detail_2"))) =>
        /\ exc = IndexError
        /\ pc = "raised"
        /\ IF Overflows("detail_1")
           THEN /\ \A j \in 1..5 :
                       TextAt(ZoneList("detail_1")[j]) = Points("detail_1")[j]
                /\ \A j \in 1..5 : TextAt(ZoneList("detail_2")[j]) = TemplateText
           ELSE \A j \in 1..5 : TextAt(ZoneList("detail_2")[j]) = Points("detail_2")[j]

\* detail_1 and detail_2 both came with six lines: the fifth line of detail_1
\* is on the slide and the filler has raised
C23_Witness ==
    /\ FilledFull
    /\ calls[2].id = 69
    /\ Overflows("detail_1")
    /\ Overflows("detail_2")
    /\ Len(Points("detail_1")) = 6
    /\ TextAt("ZoneTexte 86-2") = Points("detail_1")[5]
    /\ exc = IndexError

\* C24: template 69 given detail_1 and detail_2 values of K <= 5 lines writes
\* line j to the j-th shape of the key's zone list for j = 1..K, leaves the
\* shapes K+1..5 of the list with the template's text, and raises nothing
C24_FanOut ==
    (FilledFull /\ calls[2].id = 69 /\ ~Overflows("detail_1") /\ ~Overflows("detail_2")) =>
        /\ exc = NoExc
        /\ \A key \in {"detail_1", "detail_2"} \cap DOMAIN calls[2].content :
               \A j \in 1..5 :
                   TextAt(ZoneList(key)[j]) =
                       IF j <= Len(Points(key)) THEN Points(key)[j] ELSE TemplateText

\* detail_1 came with three lines: shape 3 of its list holds the third,
\* shapes 4 and 5 the template's text
C24_Witness ==
    /\ FilledFull
    /\ calls[2].id = 69
    /\ "detail_1" \in DOMAIN calls[2].content
    /\ Len(Points("detail_1")) = 3
    /\ TextAt("ZoneTexte 80") = <<"detail_1", "'", "'">>
    /\ TextAt("ZoneTexte 86") = TemplateText
    /\ TextAt("ZoneTexte 86-2") = TemplateText
    /\ exc = NoExc

\* the text of cell (row, col) of the table of that name on slide 2
CellAt(name, row, col) ==
    LET j == CHOOSE n \in DOMAIN deck[2].shapes :
                 lower(deck[2].shapes[n].Name) = lower(name)
    IN  deck[2].shapes[j].Table[<<row, col>>]

\* C25: in templates 107, 108 and 109, when idea_N and description_N are both
\* present, the first cell of row N + 1 of "Tableau 18" holds exactly
\* "N. " + idea_N + newline + description_N, N being the pair's 1-based
\* ordinal (idea_1 "Reduce cost", description_1 "via automation" give
\* "1. Reduce cost\nvia automation")
C25_NumberedPrefix ==
    (FilledFull /\ calls[2].id \in {107, 108, 109}) =>
        \A ord \in 1..4 :
            LET idea == <<"idea_1", "idea_2", "idea_3", "idea_4">>[ord]
                description == <<"description_1", "description_2",
                                 "description_3", "description_4">>[ord]
                prefix == <<"1. ", "2. ", "3. ", "4. ">>[ord]
            IN  {idea, description} \subseteq DOMAIN calls[2].content =>
                    CellAt("Tableau 18", ord + 1, 1) =
                        <<prefix>> \o calls[2].content[idea] \o <<NL>>
                                   \o calls[2].content[description]

\* template 109 was given idea_4 and description_4, and row 5 holds the
\* numbered pair
C25_Witness ==
    /\ FilledFull
    /\ calls[2].id = 109
    /\ {"idea_4", "description_4"} \subseteq DOMAIN calls[2].content
    /\ CellAt("Tableau 18", 5, 1) = <<"4. ", "idea_4", NL, "description_4">>
    /\ CellAt("Tableau 18", 2, 1) # TemplateText

\* C26: in templates 66, 67 and 68, when cause_2 is present the shape
\* "Content Placeholder 4-2c" receives the value of cause_1, not that of
\* cause_2, and the value of cause_2 is written to no shape
C26_Original ==
    (FilledFull /\ calls[2].id \in {66, 67, 68} /\ "cause_2" \in DOMAIN calls[2].content) =>
        /\ "cause_1" \in DOMAIN calls[2].content
        /\ TextAt("Content Placeholder 4-2c") = calls[2].content["cause_1"]
        /\ Holding("cause_2", 2) = {}

\* C27: two bindings to one shape, the later write stays: in template 8 with
\* summary_title_2 and source_1 both present "ZoneTexte 6" ends with the
\* value of source_1; in template 11 "ZoneTexte 32" ends with the value of
\* the highest-numbered consequence_N that is present
C27_LastWriteWins ==
    /\ (FilledFull /\ calls[2].id = 8
           /\ {"summary_title_2", "source_1"} \subseteq DOMAIN calls[2].content) =>
           TextAt("ZoneTexte 6") = calls[2].content["source_1"]
    /\ (FilledFull /\ calls[2].id = 11) =>
           \A ord \in 1..3 :
               LET consequence == <<"consequence_1", "consequence_2", "consequence_3">>
               IN  (/\ consequence[ord] \in DOMAIN calls[2].content
                    /\ \A later \in (ord + 1)..3 :
                           consequence[later] \notin DOMAIN calls[2].content) =>
                       TextAt("ZoneTexte 32") = calls[2].content[consequence[ord]]

\* template 11 was given consequence_1 and consequence_2 and no
\* consequence_3: the shape holds the value of consequence_2
C27_Witness ==
    /\ FilledFull
    /\ calls[2].id = 11
    /\ DOMAIN calls[2].content = {"consequence_1", "consequence_2"}
    /\ TextAt("ZoneTexte 32") = <<"consequence_2">>

\* C28: _set_group_text on a name that only groups answer to works on one of
\* them: among that group's children, in order, the first whose name equals
\* shape_name ignoring case gets the text if it has a text frame; no other
\* child, no other shape and, when that first match has no text frame,
\* nothing at all is changed, and nothing is raised
C28_GroupText ==
    (/\ wcall.op = "_set_group_text"
     /\ Selected
     /\ Hits(wcall.before, Looked) # {}
     /\ \A j \in Hits(wcall.before, Looked) : wcall.before[j].HasGroupItems) =>
        /\ wcall.exc = NoExc
        /\ \E g \in Hits(wcall.before, Looked) :
               LET items == wcall.before[g].GroupItems
                   match == {j \in DOMAIN items :
                                 lower(items[j].Name) = lower(wcall.shape_name)}
               IN  IF match = {} THEN Shapes = wcall.before
                   ELSE LET item == CHOOSE j \in match : \A k \in match : j <= k
                        IN  Shapes = [wcall.before EXCEPT
                                         ![g].GroupItems[item].Text =
                                             IF items[item].HasTextFrame
                                             THEN wcall.text ELSE @]

\* the group's first "ZoneTexte 109" has no text frame: the call has
\* returned and the second child of that name, which has one, is as before
C28_Witness ==
    /\ wcall.op = "_set_group_text"
    /\ Selected
    /\ wcall.shape_name = "ZoneTexte 109"
    /\ Hits(wcall.before, Looked) # {}
    /\ \A j \in Hits(wcall.before, Looked) :
           /\ wcall.before[j].HasGroupItems
           /\ ~wcall.before[j].GroupItems[3].HasTextFrame
           /\ wcall.before[j].GroupItems[4].HasTextFrame
           /\ lower(wcall.before[j].GroupItems[4].Name) = lower("ZoneTexte 109")
           /\ Shapes[j].GroupItems[4].Text = TemplateText
    /\ Shapes = wcall.before

====
